---- MODULE Spec2Model ----
(***************************************************************************)
(* Zephyr push-to-talk voice input: the hotkey listeners, the audio        *)
(* capture engine, the streaming speech recognizer and the daemon that     *)
(* sequences them.  The specifications share the variables:                *)
(*   SpecHotkey      raw key events delivered to a started hotkey listener *)
(*   SpecAudio       the AudioCapture API and its capture-loop thread      *)
(*   SpecRecognizer  the SpeechRecognizer API                              *)
(*   Spec            the daemon's press/release handlers driving all parts *)
(*   SpecSession     the handlers and the capture loop of a running daemon *)
(*   SpecChunks      a capture loop whose chunk callback feeds a stream    *)
(* SpecRecognizerFair and SpecSessionFair add the fairness of the timer    *)
(* and of the threads to SpecRecognizer and SpecSession.                   *)
(***************************************************************************)
EXTENDS Integers, Sequences, FiniteSets, TLC

VARIABLES
  \* hotkey listener
  backend, hk, now, phys_down, ev_log, cb_log, last_ev,
  \* audio capture
  audio, threads, next_seq, delivered, caller, last_call, last_append,
  stop_data, session_log,
  \* speech recognizer
  rec, rec_last, fed,
  \* daemon, overlay, text injection
  dmn, ui, inj, d_last, fed_log,
  \* the locks of the daemon, the engine and the recognizer
  lk

hkVars == <<backend, hk, now, phys_down, ev_log, cb_log, last_ev>>

audioVars ==
  <<audio, threads, next_seq, delivered, caller, last_call, last_append,
    stop_data, session_log>>

recVars == <<rec, rec_last, fed>>

daemonVars == <<dmn, ui, inj, d_last, fed_log>>

lockVars == <<lk>>

vars == <<hkVars, audioVars, recVars, daemonVars, lockVars>>

notHkVars == <<audioVars, recVars, daemonVars, lockVars>>

notAudioVars == <<hkVars, recVars, daemonVars, lockVars>>

notRecVars == <<hkVars, audioVars, daemonVars, lockVars>>

(***************************************************************************)
(* Bounds                                                                  *)
(***************************************************************************)
\* raw key events delivered to a listener in one behaviour
MaxEvents == 4

\* advanced.max_recording_duration in seconds (60 in the default
\* configuration), scaled down
MaxRecordingDuration == 1

\* capture-loop threads alive at once
MaxThreads == 1

\* hotkey callbacks the listener delivers to the daemon in one behaviour
MaxCallbacks == 2

(***************************************************************************)
(* Hotkey listeners: hotkey_listener.py (pynput) and                       *)
(* evdev_hotkey_listener.py (evdev).                                       *)
(*                                                                         *)
(* A hotkey string is the sequence of its '+'-separated parts, lower case: *)
(* "ctrl+alt_r" is <<"ctrl", "alt_r">>; '+' in hotkey is Len(hotkey) > 1.  *)
(* A key is named by a string: a pynput Key member or evdev key code by    *)
(* its name, a character key by the character.                             *)
(***************************************************************************)
None == "None"

\* time.time() values; -1 stands for press_start_time = None
NoTime == -1

\* advanced.min_press_duration, in clock ticks of 100 ms
MinPressDuration == 1

\* HotkeyListener.KEY_MAPPING: name -> pynput key ("chr92" is the backslash
\* character, "grave" the backquote character)
KEY_MAPPING ==
  [n \in {"backslash", "space", "ctrl", "ctrl_l", "ctrl_r", "alt", "alt_l",
          "alt_r", "shift", "tab", "enter", "esc", "f1", "f2", "f3", "f4",
          "f5", "f6", "f7", "f8", "f9", "f10", "f11", "f12"}
     |-> IF n = "backslash" THEN "chr92" ELSE n]

\* len(s) of the part s of a hotkey string, for the parts the model uses
StrLen(s) ==
  IF s = "" THEN 0
  ELSE IF s \in {"grave", "chr92", "a", "v"} THEN 1
  ELSE 2

\* the elements of a sequence
Range(s) == {s[i] : i \in DOMAIN s}

\* HotkeyListener._parse_hotkey: [ok, target_key, required_modifiers]
ParseError == [ok |-> FALSE, target_key |-> None, required_modifiers |-> {}]

_parse_hotkey(hotkey) ==
  IF Len(hotkey) > 1
  THEN LET target_key_name == hotkey[Len(hotkey)]
           modifier_names  == Range(SubSeq(hotkey, 1, Len(hotkey) - 1))
       IN  IF ~(target_key_name \in DOMAIN KEY_MAPPING \/ StrLen(target_key_name) = 1)
           THEN ParseError
           ELSE IF \E m \in modifier_names : m \notin DOMAIN KEY_MAPPING
           THEN ParseError
           ELSE [ok |-> TRUE,
                 target_key |-> IF target_key_name \in DOMAIN KEY_MAPPING
                                THEN KEY_MAPPING[target_key_name]
                                ELSE target_key_name,
                 required_modifiers |-> {KEY_MAPPING[m] : m \in modifier_names}]
  ELSE IF hotkey[1] \in DOMAIN KEY_MAPPING
       THEN [ok |-> TRUE, target_key |-> KEY_MAPPING[hotkey[1]], required_modifiers |-> {}]
       ELSE IF StrLen(hotkey[1]) = 1
       THEN [ok |-> TRUE, target_key |-> hotkey[1], required_modifiers |-> {}]
       ELSE ParseError

\* EvdevHotkeyListener._parse_hotkey: key_map, with KEY_GRAVE named "grave",
\* KEY_LEFTCTRL "ctrl", KEY_LEFTSHIFT "shift", KEY_LEFTALT "alt"
evdev_key_map == [n \in {"grave", "space", "ctrl", "shift", "alt"} |-> n]

evdev_key_map_get(name) ==
  IF name \in DOMAIN evdev_key_map THEN evdev_key_map[name] ELSE "grave"

evdev_parse_hotkey(hotkey) ==
  IF Len(hotkey) > 1
  THEN [ok |-> TRUE,
        target_key |-> evdev_key_map_get(hotkey[Len(hotkey)]),
        required_modifiers |->
          {evdev_key_map[m] : m \in Range(SubSeq(hotkey, 1, Len(hotkey) - 1))
                                     \cap DOMAIN evdev_key_map}]
  ELSE [ok |-> TRUE, target_key |-> evdev_key_map_get(hotkey[1]),
        required_modifiers |-> {}]

\* HotkeyListener._is_modifier_key
_is_modifier_key(key) ==
  key \in {"ctrl", "ctrl_l", "ctrl_r", "alt", "alt_l", "alt_r",
           "shift", "shift_l", "shift_r"}

\* HotkeyListener._is_target_key
_is_target_key(h, key) == key = h.target_key

\* HotkeyListener._are_modifiers_pressed
_are_modifiers_pressed(h) ==
  \A required_mod \in h.required_modifiers :
     \/ required_mod \in h.pressed_modifiers
     \/ required_mod = "ctrl"
        /\ ({"ctrl_l", "ctrl_r"} \cap h.pressed_modifiers) # {}
     \/ required_mod = "alt"
        /\ ({"alt_l", "alt_r"} \cap h.pressed_modifiers) # {}
     \/ required_mod = "shift"
        /\ ({"shift_l", "shift_r"} \cap h.pressed_modifiers) # {}

\* the outcome of one raw event: the listener after it, the callback it fired
\* ("press", "release" or "none") and the value returned to pynput (FALSE =
\* suppress the key)
Outcome(h, fired, ret) == [st |-> h, fired |-> fired, ret |-> ret]

\* HotkeyListener._on_key_press without the key-repeat test of lines 320-322
_on_key_press_NoRepeatCheck(h, key, t) ==
  IF _is_modifier_key(key)
  THEN Outcome([h EXCEPT !.pressed_modifiers = @ \cup {key}], "none", TRUE)
  ELSE IF ~_is_target_key(h, key) THEN Outcome(h, "none", TRUE)
  ELSE IF ~_are_modifiers_pressed(h) THEN Outcome(h, "none", TRUE)
  ELSE Outcome([h EXCEPT !.key_pressed = TRUE, !.press_start_time = t],
               "press", FALSE)

\* HotkeyListener._on_key_press without the modifier test of lines 314-318
_on_key_press_NoModifierTest(h, key, t) ==
  IF _is_modifier_key(key)
  THEN Outcome([h EXCEPT !.pressed_modifiers = @ \cup {key}], "none", TRUE)
  ELSE IF ~_is_target_key(h, key) THEN Outcome(h, "none", TRUE)
  ELSE IF h.key_pressed THEN Outcome(h, "none", FALSE)
  ELSE Outcome([h EXCEPT !.key_pressed = TRUE, !.press_start_time = t],
               "press", FALSE)

\* HotkeyListener._on_key_press
_on_key_press(h, key, t) ==
  IF _is_modifier_key(key)
  THEN Outcome([h EXCEPT !.pressed_modifiers = @ \cup {key}], "none", TRUE)
  ELSE IF ~_is_target_key(h, key) THEN Outcome(h, "none", TRUE)
  ELSE IF ~_are_modifiers_pressed(h) THEN Outcome(h, "none", TRUE)
  ELSE IF h.key_pressed THEN Outcome(h, "none", FALSE)
  ELSE Outcome([h EXCEPT !.key_pressed = TRUE, !.press_start_time = t],
               "press", FALSE)

\* HotkeyListener._on_key_release
_on_key_release(h, key, t) ==
  IF _is_modifier_key(key)
  THEN Outcome([h EXCEPT !.pressed_modifiers = @ \ {key}], "none", TRUE)
  ELSE IF ~_is_target_key(h, key) THEN Outcome(h, "none", TRUE)
  ELSE IF ~h.key_pressed THEN Outcome(h, "none", TRUE)
  ELSE LET press_duration ==
             IF h.press_start_time # NoTime THEN t - h.press_start_time ELSE 0
           reset == [h EXCEPT !.key_pressed = FALSE, !.press_start_time = NoTime]
       IN  IF press_duration < MinPressDuration
           THEN Outcome(reset, "none", FALSE)
           ELSE Outcome(reset, "release", FALSE)

\* EvdevHotkeyListener._handle_key_event; key_state 0 = release, 1 = press,
\* 2 = hold
_handle_key_event(h, key_code, key_state, t) ==
  IF key_state = 1
  THEN LET h1 == [h EXCEPT !.pressed_keys = @ \cup {key_code}]
       IN  IF /\ key_code = h1.target_key
              /\ h1.required_modifiers \subseteq h1.pressed_keys
              /\ ~h1.key_pressed
           THEN Outcome([h1 EXCEPT !.key_pressed = TRUE, !.press_start_time = t],
                        "press", TRUE)
           ELSE Outcome(h1, "none", TRUE)
  ELSE IF key_state = 0
  THEN LET h1 == [h EXCEPT !.pressed_keys = @ \ {key_code}]
       IN  IF key_code = h1.target_key /\ h1.key_pressed
           THEN Outcome([h1 EXCEPT !.key_pressed = FALSE, !.press_start_time = NoTime],
                        "release", TRUE)
           ELSE Outcome(h1, "none", TRUE)
  ELSE Outcome(h, "none", TRUE)

\* HotkeyListener.__init__ followed by start(), EvdevHotkeyListener.__init__
\* followed by start(): the listener that receives events.  When
\* _parse_hotkey raises, __init__ raises, no listener exists and none runs.
NewListener(b, hotkey) ==
  LET p == IF b = "pynput" THEN _parse_hotkey(hotkey) ELSE evdev_parse_hotkey(hotkey)
  IN  [hotkey |-> hotkey, target_key |-> p.target_key,
       required_modifiers |-> p.required_modifiers,
       key_pressed |-> FALSE, press_start_time |-> NoTime,
       pressed_modifiers |-> {}, pressed_keys |-> {}, is_running |-> p.ok]

\* the hotkey strings and the keys of the keyboard the behaviours draw from
HotkeyStrings == {<<"ctrl", "alt_r">>, <<"ctrl", "f9">>, <<"f9">>, <<"grave">>}

\* hotkey strings with a key name of neither backend, or an empty target
InvalidHotkeyStrings == {<<"bogus">>, <<"ctrl", "">>, <<"bogus", "f9">>}

RawKeys == {"ctrl", "alt_r", "f9", "grave"}

Backends == {"pynput", "evdev"}

\* the last raw event: mods_held is whether every required modifier was
\* physically down when it arrived; unmatched is whether a down of the target
\* key that found the key unlatched and a modifier missing is outstanding
\* (no press callback and no up of the target key since)
NoEvent == [key |-> None, dir |-> None, latched_before |-> FALSE,
            fired |-> "none", ret |-> TRUE, t |-> 0, mods_held |-> TRUE,
            unmatched_before |-> FALSE, unmatched |-> FALSE]

InitHotkey ==
  /\ backend \in Backends
  /\ \E hotkey \in HotkeyStrings \cup InvalidHotkeyStrings :
        hk = NewListener(backend, hotkey)
  /\ now = 1
  /\ phys_down = {}
  /\ ev_log = <<>>
  /\ cb_log = <<>>
  /\ last_ev = NoEvent

\* a listener that receives no event
IdleHotkey ==
  /\ backend = "pynput"
  /\ hk = NewListener("pynput", <<"backslash">>)
  /\ now = 1
  /\ phys_down = {}
  /\ ev_log = <<>>
  /\ cb_log = <<>>
  /\ last_ev = NoEvent

\* the bookkeeping of one delivered event: the event log, the callback log
\* (which callback, at which event) and the outcome of the last event
Deliver(key, dir, t, o) ==
  /\ hk' = o.st
  /\ now' = t
  /\ ev_log' = Append(ev_log, <<key, dir>>)
  /\ cb_log' = IF o.fired = "none" THEN cb_log
               ELSE Append(cb_log, [kind |-> o.fired, at |-> Len(ev_log) + 1])
  /\ last_ev' =
       LET held == hk.required_modifiers \subseteq phys_down
       IN  [key |-> key, dir |-> dir, latched_before |-> hk.key_pressed,
            fired |-> o.fired, ret |-> o.ret, t |-> t, mods_held |-> held,
            unmatched_before |-> last_ev.unmatched,
            unmatched |->
              IF key = hk.target_key /\ dir = "down" /\ ~held /\ ~hk.key_pressed
              THEN TRUE
              ELSE IF o.fired = "press" \/ (key = hk.target_key /\ dir = "up")
              THEN FALSE
              ELSE last_ev.unmatched]

\* pynput's listener thread calls on_press for a key going down and for each
\* auto-repeat of a key held down
PynputKeyDown ==
  /\ backend = "pynput" /\ hk.is_running /\ Len(ev_log) < MaxEvents
  /\ \E key \in RawKeys, dt \in {0, 1} :
        /\ phys_down' = phys_down \cup {key}
        /\ Deliver(key, "down", now + dt, _on_key_press(hk, key, now + dt))
  /\ UNCHANGED <<backend, notHkVars>>

\* pynput's listener thread calls on_release for a key going up
PynputKeyUp ==
  /\ backend = "pynput" /\ hk.is_running /\ Len(ev_log) < MaxEvents
  /\ \E key \in phys_down, dt \in {0, 1} :
        /\ phys_down' = phys_down \ {key}
        /\ Deliver(key, "up", now + dt, _on_key_release(hk, key, now + dt))
  /\ UNCHANGED <<backend, notHkVars>>

\* _listen_loop hands every EV_KEY event to _handle_key_event: value 1 for a
\* key going down (on any of the monitored keyboards), 2 for a held key
EvdevKeyDown ==
  /\ backend = "evdev" /\ hk.is_running /\ Len(ev_log) < MaxEvents
  /\ \E key \in RawKeys, dt \in {0, 1}, key_state \in {1, 2} :
        /\ key_state = 2 => key \in phys_down
        /\ phys_down' = phys_down \cup {key}
        /\ Deliver(key, "down", now + dt,
                   _handle_key_event(hk, key, key_state, now + dt))
  /\ UNCHANGED <<backend, notHkVars>>

EvdevKeyUp ==
  /\ backend = "evdev" /\ hk.is_running /\ Len(ev_log) < MaxEvents
  /\ \E key \in phys_down, dt \in {0, 1} :
        /\ phys_down' = phys_down \ {key}
        /\ Deliver(key, "up", now + dt, _handle_key_event(hk, key, 0, now + dt))
  /\ UNCHANGED <<backend, notHkVars>>

NextHotkey == PynputKeyDown \/ PynputKeyUp \/ EvdevKeyDown \/ EvdevKeyUp

(***************************************************************************)
(* Audio capture: audio_capture.py.                                        *)
(*                                                                         *)
(* A chunk is one read of chunk_size frames, named by its place in the     *)
(* device's sample stream: 1, 2, ...  b''.join(buffer) is the sequence of  *)
(* the chunks joined.  Levels are in percent of full scale; the stream     *)
(* alternates loud chunks and silent ones.                                 *)
(***************************************************************************)
\* audio.chunk_duration in seconds
ChunkDuration == 1

\* AudioCapture.__init__: max_buffer_size, the maxlen of the deque
max_buffer_size == (MaxRecordingDuration \div ChunkDuration) + 1

\* chunks the device delivers in one behaviour: more than the ring buffer holds
MaxChunks == max_buffer_size + 1

\* AudioCapture._calculate_audio_level: the normalised RMS of the chunk
_calculate_audio_level(audio_data) == IF audio_data % 2 = 1 THEN 60 ELSE 0

NoChunk == 0

ThreadIds == 1 .. MaxThreads

\* collections.deque(maxlen=n).append without the eviction: an unbounded list
deque_append_Unbounded(buf, x, maxlen) == Append(buf, x)

\* collections.deque(maxlen=n).append
deque_append(buf, x, maxlen) ==
  IF Len(buf) >= maxlen
  THEN Append(SubSeq(buf, Len(buf) - maxlen + 2, Len(buf)), x)
  ELSE Append(buf, x)

\* AudioCapture.__init__
NewAudioCapture ==
  [pyaudio |-> FALSE, stream |-> FALSE, is_recording |-> FALSE,
   recording_thread |-> 0, stop_event |-> FALSE, audio_buffer |-> <<>>,
   current_audio_level |-> 0, chunk_callback |-> None]

\* what the device does when start_recording initialises PyAudio and opens
\* the input stream
DeviceConditions ==
  {"ok", "init_permission", "init_oserror", "no_input",
   "open_permission", "open_busy", "open_oserror"}

Ok == "ok"

\* AudioCapture._initialize_pyaudio.  PyAudio() raising leaves _pyaudio None;
\* the device query runs after _pyaudio is assigned.  MicrophoneNotFoundError
\* is raised inside the try block and is no OSError, so the except Exception
\* clause turns it into AudioDeviceError.
_initialize_pyaudio(a, dev) ==
  IF a.pyaudio THEN [st |-> a, err |-> Ok]
  ELSE IF dev = "init_permission" THEN [st |-> a, err |-> "PermissionDeniedError"]
  ELSE IF dev = "init_oserror"
       THEN [st |-> [a EXCEPT !.pyaudio = TRUE], err |-> "AudioDeviceError"]
  ELSE IF dev = "no_input"
       THEN [st |-> [a EXCEPT !.pyaudio = TRUE], err |-> "AudioDeviceError"]
  ELSE [st |-> [a EXCEPT !.pyaudio = TRUE], err |-> Ok]

\* AudioCapture._open_stream
_open_stream(a, dev) ==
  IF a.stream THEN [st |-> a, err |-> Ok]
  ELSE IF dev = "open_permission" THEN [st |-> a, err |-> "PermissionDeniedError"]
  ELSE IF dev = "open_busy" THEN [st |-> a, err |-> "DeviceBusyError"]
  ELSE IF dev = "open_oserror" THEN [st |-> a, err |-> "AudioDeviceError"]
  ELSE [st |-> [a EXCEPT !.stream = TRUE], err |-> Ok]

\* AudioCapture.start_recording; tid is the thread it starts, spawn whether it
\* started one
start_recording(a, chunk_callback, dev, tid) ==
  IF a.is_recording
  THEN [st |-> a, err |-> "RuntimeError", spawn |-> FALSE]
  ELSE LET i == _initialize_pyaudio(a, dev)
           o == _open_stream(i.st, dev)
       IN  IF i.err # Ok THEN [st |-> i.st, err |-> i.err, spawn |-> FALSE]
           ELSE IF o.err # Ok THEN [st |-> o.st, err |-> o.err, spawn |-> FALSE]
           ELSE [st |-> [o.st EXCEPT !.audio_buffer = <<>>,
                                     !.stop_event = FALSE,
                                     !.is_recording = TRUE,
                                     !.chunk_callback = chunk_callback,
                                     !.recording_thread = tid],
                 err |-> Ok, spawn |-> TRUE]

\* AudioCapture.stop_recording with the stop event set before the
\* is-recording test
stop_recording_begin_SignalFirst(a) ==
  IF ~a.is_recording
  THEN [st |-> [a EXCEPT !.stop_event = TRUE], err |-> "RuntimeError"]
  ELSE [st |-> [a EXCEPT !.stop_event = TRUE], err |-> Ok]

\* AudioCapture.stop_recording up to the join: the is-recording test and the
\* stop event
stop_recording_begin(a) ==
  IF ~a.is_recording
  THEN [st |-> a, err |-> "RuntimeError"]
  ELSE [st |-> [a EXCEPT !.stop_event = TRUE], err |-> Ok]

\* AudioCapture._close_stream
_close_stream(a) == [a EXCEPT !.stream = FALSE]

\* AudioCapture._apply_noise_reduction_filter: nr is "applied", "unavailable"
\* (noisereduce not installed) or "failed"; the data keeps its chunks and is
\* marked filtered when the filter changed the samples
NoiseOutcomes == {"applied", "unavailable", "failed"}

_apply_noise_reduction_filter(audio_data, nr) ==
  [audio_data EXCEPT !.filtered = (nr = "applied")]

\* AudioCapture.stop_recording, lines 316-322, from the return of the join
\* to the release of the buffer lock: the flags, b''.join of the ring buffer
\* and its clear; data is the bytes joined
stop_recording_joined(a) ==
  [st |-> [a EXCEPT !.is_recording = FALSE, !.chunk_callback = None,
                    !.audio_buffer = <<>>],
   data |-> [chunks |-> a.audio_buffer, filtered |-> FALSE]]

\* AudioCapture.stop_recording, lines 324-336: the noise filter, _close_stream
\* and the return; ret is the bytes returned
stop_recording_rest(a, data, nr) ==
  [st |-> _close_stream(a),
   ret |-> IF Len(data.chunks) > 0
           THEN _apply_noise_reduction_filter(data, nr)
           ELSE data]

\* AudioCapture.stop_recording after the join: st the engine, ret the bytes
\* returned
stop_recording_finish(a, nr) ==
  LET j == stop_recording_joined(a)
  IN  stop_recording_rest(j.st, j.data, nr)

\* AudioCapture.release_device after its stop_recording call, with PyAudio
\* left initialised
release_device_rest_NoTerminate(a) ==
  [_close_stream(a) EXCEPT !.audio_buffer = <<>>, !.current_audio_level = 0]

\* AudioCapture.release_device after its stop_recording call
release_device_rest(a) ==
  [_close_stream(a) EXCEPT !.pyaudio = FALSE, !.audio_buffer = <<>>,
                           !.current_audio_level = 0]

\* Thread.join without a timeout: it returns only when the thread has ended
JoinReturns_NoTimeout(a) ==
  \/ a.recording_thread = 0
  \/ threads[a.recording_thread].pc = "none"

\* Thread.join(timeout=2.0) on the capture thread returns when the thread has
\* ended, or after two seconds with the thread blocked in a read or in the
\* chunk callback; the steps between the two take no time
JoinReturns(a) ==
  \/ a.recording_thread = 0
  \/ threads[a.recording_thread].pc \in {"none", "read", "callback"}

FreeThreads == {t \in DOMAIN threads : threads[t].pc = "none"}

\* the thread start_recording starts
NewThread == CHOOSE t \in FreeThreads : \A u \in FreeThreads : t <= u

NoData == [chunks |-> <<>>, filtered |-> FALSE]

\* the engine holds nothing of the device and nothing of a recording
Released(a) ==
  /\ ~a.is_recording
  /\ ~a.stream
  /\ ~a.pyaudio
  /\ a.audio_buffer = <<>>
  /\ a.current_audio_level = 0

\* the last call of the API that returned: the operation, what it raised,
\* whether it changed the engine, what it returned, whether it left the
\* engine released, whether it is a release_device that follows another, for
\* stop_recording the chunks the loop had appended since start_recording
\* (the last max_buffer_size of them), and for a start_recording that the
\* device failed the condition of the device
NoCall ==
  [op |-> None, err |-> Ok, changed |-> FALSE, ret |-> NoData,
   released |-> TRUE, again |-> FALSE, log |-> <<>>, dev |-> None]

Returns(op, err, before, after, ret, log) ==
  [op |-> op, err |-> err, changed |-> after # before, ret |-> ret,
   released |-> Released(after),
   again |-> (op = "release_device" /\ last_call.op = op), log |-> log,
   dev |-> None]

NoAppend == [before |-> <<>>, chunk |-> NoChunk, after |-> <<>>]

\* a capture thread: where it is in _recording_loop, the chunk it has read,
\* and, where the calls of the chunk callback are logged, whether the one it
\* comes from raised
Thread(pc, chunk, raised) == [pc |-> pc, chunk |-> chunk, raised |-> raised]

InitAudio ==
  /\ audio = NewAudioCapture
  /\ threads = [t \in ThreadIds |-> Thread("none", NoChunk, FALSE)]
  /\ next_seq = 1
  /\ delivered = NoChunk
  /\ caller = "idle"
  /\ last_call = NoCall
  /\ last_append = NoAppend
  /\ stop_data = NoData
  /\ session_log = <<>>

\* _recording_loop, line 259: the test of the stop event
LoopCheck(t) ==
  /\ threads[t].pc = "check"
  /\ threads' = [threads EXCEPT ![t] =
       Thread(IF audio.stop_event THEN "none" ELSE "read", NoChunk, FALSE)]
  /\ UNCHANGED <<audio, next_seq, delivered, caller, last_call, last_append,
                 stop_data, session_log>>
  /\ UNCHANGED notAudioVars

\* _recording_loop, lines 261-266: the blocking read of the stream returns
\* the device's next chunk.  A read of a closed stream, or a device error,
\* raises and ends the loop (line 285).
LoopRead(t) ==
  /\ threads[t].pc = "read"
  /\ \/ /\ ~audio.stream
        /\ threads' = [threads EXCEPT ![t].pc = "none"]
        /\ UNCHANGED next_seq
     \/ /\ audio.stream
        /\ next_seq <= MaxChunks
        /\ threads' = [threads EXCEPT ![t] = Thread("store", next_seq, FALSE)]
        /\ next_seq' = next_seq + 1
  /\ UNCHANGED <<audio, delivered, caller, last_call, last_append, stop_data,
                 session_log>>
  /\ UNCHANGED notAudioVars

\* _recording_loop, lines 268-279: the level, the append to the ring buffer
\* under the buffer lock and the test for a chunk callback
LoopStore(t) ==
  /\ threads[t].pc = "store"
  /\ LET audio_data == threads[t].chunk
         buf == deque_append(audio.audio_buffer, audio_data, max_buffer_size)
     IN  /\ audio' = [audio EXCEPT !.current_audio_level =
                                     _calculate_audio_level(audio_data),
                                   !.audio_buffer = buf]
         /\ last_append' = [before |-> audio.audio_buffer,
                            chunk |-> audio_data, after |-> buf]
         /\ session_log' = LET log == Append(session_log, audio_data)
                           IN  IF Len(log) > max_buffer_size THEN Tail(log)
                               ELSE log
         /\ threads' = [threads EXCEPT ![t] =
              IF audio.chunk_callback # None
              THEN Thread("callback", audio_data, FALSE)
              ELSE Thread("check", NoChunk, FALSE)]
  /\ UNCHANGED <<next_seq, delivered, caller, last_call, stop_data>>
  /\ UNCHANGED notAudioVars

\* _recording_loop, lines 280-283: what the chunk callback raises is logged,
\* and the loop goes on with the test of the stop event
after_chunk_callback(raised) == "check"

\* _recording_loop, lines 280-283: the chunk callback of a caller of the
\* engine returns or raises
LoopCallback(t) ==
  /\ threads[t].pc = "callback"
  /\ delivered' = threads[t].chunk
  /\ \E raised \in BOOLEAN :
       threads' = [threads EXCEPT ![t] =
         Thread(after_chunk_callback(raised), NoChunk, FALSE)]
  /\ UNCHANGED <<audio, next_seq, caller, last_call, last_append, stop_data,
                 session_log>>
  /\ UNCHANGED notAudioVars

\* a call of start_recording
AudioStart ==
  /\ caller = "idle"
  /\ FreeThreads # {}
  /\ \E cb \in {None, "cb"}, dev \in DeviceConditions :
       LET r == start_recording(audio, cb, dev, NewThread)
       IN  /\ audio' = r.st
           /\ threads' = IF r.spawn
                         THEN [threads EXCEPT ![NewThread].pc = "check"]
                         ELSE threads
           /\ session_log' = IF r.spawn THEN <<>> ELSE session_log
           /\ last_call' = [Returns("start_recording", r.err, audio, r.st,
                                    NoData, <<>>)
                              EXCEPT !.dev = IF r.err \in {Ok, "RuntimeError"}
                                             THEN None ELSE dev]
  /\ UNCHANGED <<next_seq, delivered, caller, last_append, stop_data>>
  /\ UNCHANGED notAudioVars

\* a call of stop_recording: it raises, or signals the loop and joins it
AudioStopBegin ==
  /\ caller = "idle"
  /\ LET r == stop_recording_begin(audio)
     IN  /\ audio' = r.st
         /\ caller' = IF r.err = Ok THEN "stop_join" ELSE "idle"
         /\ last_call' = IF r.err = Ok THEN last_call
                         ELSE Returns("stop_recording", r.err, audio, r.st,
                                      NoData, <<>>)
  /\ UNCHANGED <<threads, next_seq, delivered, last_append, stop_data,
                 session_log>>
  /\ UNCHANGED notAudioVars

\* stop_recording once the join has returned: the buffer is joined and
\* cleared under the buffer lock
AudioStopJoined ==
  /\ caller = "stop_join"
  /\ JoinReturns(audio)
  /\ LET j == stop_recording_joined(audio)
     IN  /\ audio' = j.st
         /\ stop_data' = j.data
  /\ caller' = "stop_rest"
  /\ UNCHANGED <<threads, next_seq, delivered, last_call, last_append,
                 session_log>>
  /\ UNCHANGED notAudioVars

\* stop_recording filters the bytes joined, closes the stream and returns
AudioStopFinish ==
  /\ caller = "stop_rest"
  /\ \E nr \in NoiseOutcomes :
       LET r == stop_recording_rest(audio, stop_data, nr)
       IN  /\ audio' = r.st
           /\ last_call' = Returns("stop_recording", Ok, audio, r.st, r.ret,
                                   session_log)
  /\ caller' = "idle"
  /\ stop_data' = NoData
  /\ UNCHANGED <<threads, next_seq, delivered, last_append, session_log>>
  /\ UNCHANGED notAudioVars

\* a call of release_device: with no recording in progress it runs to its
\* end, otherwise it calls stop_recording, which joins the loop
AudioReleaseBegin ==
  /\ caller = "idle"
  /\ IF audio.is_recording
     THEN /\ audio' = stop_recording_begin(audio).st
          /\ caller' = "release_join"
          /\ UNCHANGED last_call
     ELSE /\ audio' = release_device_rest(audio)
          /\ caller' = "idle"
          /\ last_call' = Returns("release_device", Ok, audio,
                                  release_device_rest(audio), NoData, <<>>)
  /\ UNCHANGED <<threads, next_seq, delivered, last_append, stop_data,
                 session_log>>
  /\ UNCHANGED notAudioVars

\* release_device once the join of its stop_recording call has returned
AudioReleaseFinish ==
  /\ caller = "release_join"
  /\ JoinReturns(audio)
  /\ \E nr \in NoiseOutcomes :
       LET a2 == release_device_rest(stop_recording_finish(audio, nr).st)
       IN  /\ audio' = a2
           /\ last_call' = Returns("release_device", Ok, audio, a2, NoData,
                                   <<>>)
  /\ caller' = "idle"
  /\ UNCHANGED <<threads, next_seq, delivered, last_append, stop_data,
                 session_log>>
  /\ UNCHANGED notAudioVars

NextAudio ==
  \/ AudioStart
  \/ AudioStopBegin
  \/ AudioStopJoined
  \/ AudioStopFinish
  \/ AudioReleaseBegin
  \/ AudioReleaseFinish
  \/ \E t \in ThreadIds : LoopCheck(t)
  \/ \E t \in ThreadIds : LoopRead(t)
  \/ \E t \in ThreadIds : LoopStore(t)
  \/ \E t \in ThreadIds : LoopCallback(t)

(***************************************************************************)
(* Speech recognition: speech_recognition.py.                              *)
(*                                                                         *)
(* Audio is a sequence of chunks; a transcription is a text of Texts.      *)
(* What the Whisper model returns for a piece of audio is an input of the  *)
(* call: a text, or InferenceFails when model.transcribe raises.           *)
(***************************************************************************)
Texts == {"", "a"}

InferenceFails == "<raises>"

InferenceOutcomes == Texts \cup {InferenceFails}

\* the audio_data argument of finalize_transcription when it is None
NoAudio == [chunks |-> <<>>, filtered |-> FALSE, none |-> TRUE]

\* bytes handed to the recognizer
Bytes(data) == [chunks |-> data.chunks, filtered |-> data.filtered, none |-> FALSE]

\* SpeechRecognizer.__init__, line 141: deque(maxlen=2)
context_window_maxlen == 2

\* SpeechRecognizer.__init__ with the default language "auto", stored as None
NewSpeechRecognizer(vad_enabled) ==
  [model_loaded |-> FALSE, is_streaming |-> FALSE, streaming_callback |-> None,
   context_window |-> <<>>, current_transcription |-> "",
   unload_timer |-> FALSE, unload_after_seconds |-> 0,
   sample_rate_set |-> FALSE, vad_enabled |-> vad_enabled, language |-> None]

\* SpeechRecognizer._load_model: load_ok is whether WhisperModel(...) returns
_load_model(r, load_ok) ==
  IF r.model_loaded THEN [st |-> r, err |-> Ok]
  ELSE IF load_ok
       THEN [st |-> [r EXCEPT !.unload_timer = FALSE, !.model_loaded = TRUE],
             err |-> Ok]
       ELSE [st |-> [r EXCEPT !.unload_timer = FALSE], err |-> "ModelLoadError"]

\* SpeechRecognizer._ensure_model_loaded
_ensure_model_loaded(r, load_ok) ==
  IF ~r.model_loaded THEN _load_model(r, load_ok) ELSE [st |-> r, err |-> Ok]

\* SpeechRecognizer.set_unload_timeout
set_unload_timeout(r, seconds) == [r EXCEPT !.unload_after_seconds = seconds]

\* SpeechRecognizer._schedule_model_unload starting no timer
_schedule_model_unload_NoTimer(r) == r

\* SpeechRecognizer._schedule_model_unload: the armed timer replaces the one
\* it cancels
_schedule_model_unload(r) ==
  IF r.unload_after_seconds <= 0 THEN r ELSE [r EXCEPT !.unload_timer = TRUE]

\* SpeechRecognizer.unload_model
unload_model(r) ==
  IF ~r.model_loaded THEN r
  ELSE [r EXCEPT !.unload_timer = FALSE, !.model_loaded = FALSE]

\* what a call that raised returns
NoResult == [text |-> "", is_final |-> FALSE]

\* TranscriptionResult(text=..., is_final=True), lines 407-414 and 630-637
TranscriptionResult(text) == [text |-> text, is_final |-> TRUE]

\* SpeechRecognizer.transcribe: [st, err, result]; every exception, of the
\* model load or of the inference, is raised as TranscriptionError
transcribe(r, audio_data, load_ok, inf) ==
  LET e == _ensure_model_loaded(r, load_ok)
  IN  IF e.err # Ok
      THEN [st |-> e.st, err |-> "TranscriptionError", result |-> NoResult]
      ELSE IF inf = InferenceFails
      THEN [st |-> e.st, err |-> "TranscriptionError", result |-> NoResult]
      ELSE [st |-> _schedule_model_unload(e.st), err |-> Ok,
            result |-> TranscriptionResult(inf)]

\* SpeechRecognizer.start_streaming_transcription without the test of
\* _is_streaming
start_streaming_transcription_NoTest(r, callback, load_ok) ==
  LET e == _ensure_model_loaded(r, load_ok)
  IN  IF e.err # Ok THEN e
      ELSE [st |-> [e.st EXCEPT !.current_transcription = "",
                                !.context_window = <<>>,
                                !.is_streaming = TRUE,
                                !.streaming_callback = callback,
                                !.sample_rate_set = TRUE],
            err |-> Ok]

\* SpeechRecognizer.start_streaming_transcription
start_streaming_transcription(r, callback, load_ok) ==
  IF r.is_streaming THEN [st |-> r, err |-> "RuntimeError"]
  ELSE LET e == _ensure_model_loaded(r, load_ok)
       IN  IF e.err # Ok THEN e
           ELSE [st |-> [e.st EXCEPT !.current_transcription = "",
                                     !.context_window = <<>>,
                                     !.is_streaming = TRUE,
                                     !.streaming_callback = callback,
                                     !.sample_rate_set = TRUE],
                 err |-> Ok]

\* the append to the context window without the eviction
context_window_append_NoEvict(window, chunk_array) == Append(window, chunk_array)

\* SpeechRecognizer.process_audio_chunk, line 495: the append to the deque
context_window_append(window, chunk_array) ==
  deque_append(window, chunk_array, context_window_maxlen)

\* one call of the streaming callback
Callback(text, is_final) == [text |-> text, is_final |-> is_final]

\* what process_audio_chunk returns when it did not reach the inference
Skipped(r, swallowed) ==
  [st |-> r, appended |-> FALSE, inferred |-> <<>>, cbs |-> <<>>,
   swallowed |-> swallowed]

\* process_audio_chunk calling the streaming callback after every inference
\* pass, whether or not the text changed
process_audio_chunk_AlwaysEmit(r, audio_chunk, conv_ok, voiced, inf, cb_ok) ==
  IF ~r.is_streaming THEN Skipped(r, None)
  ELSE IF ~conv_ok THEN Skipped(r, "conversion")
  ELSE IF r.vad_enabled /\ ~voiced THEN Skipped(r, None)
  ELSE LET window == context_window_append(r.context_window, audio_chunk)
           r1 == [r EXCEPT !.context_window = window]
       IN  IF ~r.model_loaded
           THEN [st |-> r1, appended |-> TRUE, inferred |-> <<>>, cbs |-> <<>>,
                 swallowed |-> "transcribe"]
           ELSE IF inf = InferenceFails
           THEN [st |-> r1, appended |-> TRUE, inferred |-> window,
                 cbs |-> <<>>, swallowed |-> "transcribe"]
           ELSE [st |-> [r1 EXCEPT !.current_transcription = inf],
                 appended |-> TRUE, inferred |-> window,
                 cbs |-> IF r.streaming_callback # None
                         THEN <<Callback(inf, FALSE)>> ELSE <<>>,
                 swallowed |-> IF r.streaming_callback # None /\ ~cb_ok
                               THEN "callback" ELSE None]

\* process_audio_chunk ending the stream when the inference fails
process_audio_chunk_AbortOnError(r, audio_chunk, conv_ok, voiced, inf, cb_ok) ==
  LET p == process_audio_chunk_AlwaysEmit(r, audio_chunk, conv_ok, voiced, inf,
                                          cb_ok)
  IN  IF p.swallowed = "transcribe"
      THEN [p EXCEPT !.st = [p.st EXCEPT !.is_streaming = FALSE,
                                         !.streaming_callback = None]]
      ELSE p

\* SpeechRecognizer.process_audio_chunk: conv_ok is whether
\* _convert_audio_to_array takes the bytes, voiced what _has_voice_activity
\* finds in the chunk, cb_ok whether the streaming callback returns.  st is
\* the recognizer after the call, appended whether the chunk entered the
\* context window, inferred the audio an inference pass ran over (<<>> when
\* none ran), cbs the calls of the streaming callback.  Every exception is
\* logged and swallowed: swallowed names the step that raised, the
\* conversion, the call of the model (an absent model included) or the
\* callback.
process_audio_chunk(r, audio_chunk, conv_ok, voiced, inf, cb_ok) ==
  IF ~r.is_streaming THEN Skipped(r, None)
  ELSE IF ~conv_ok THEN Skipped(r, "conversion")
  ELSE IF r.vad_enabled /\ ~voiced THEN Skipped(r, None)
  ELSE LET window == context_window_append(r.context_window, audio_chunk)
           r1 == [r EXCEPT !.context_window = window]
       IN  IF ~r.model_loaded
           THEN [st |-> r1, appended |-> TRUE, inferred |-> <<>>, cbs |-> <<>>,
                 swallowed |-> "transcribe"]
           ELSE IF inf = InferenceFails
           THEN [st |-> r1, appended |-> TRUE, inferred |-> window,
                 cbs |-> <<>>, swallowed |-> "transcribe"]
           ELSE IF inf # r.current_transcription
           THEN [st |-> [r1 EXCEPT !.current_transcription = inf],
                 appended |-> TRUE, inferred |-> window,
                 cbs |-> IF r.streaming_callback # None
                         THEN <<Callback(inf, FALSE)>> ELSE <<>>,
                 swallowed |-> IF r.streaming_callback # None /\ ~cb_ok
                               THEN "callback" ELSE None]
           ELSE [st |-> r1, appended |-> TRUE, inferred |-> window,
                 cbs |-> <<>>, swallowed |-> None]

\* SpeechRecognizer.stop_streaming_transcription
stop_streaming_transcription(r) ==
  IF ~r.is_streaming THEN r
  ELSE _schedule_model_unload([r EXCEPT !.is_streaming = FALSE,
                                        !.streaming_callback = None,
                                        !.context_window = <<>>])

\* SpeechRecognizer.finalize_transcription returning the result of
\* transcribe without stopping the stream
finalize_transcription_KeepStreaming(r, audio_data, load_ok, inf) ==
  LET t == transcribe(r, audio_data, load_ok, inf)
  IN  [st |-> t.st, err |-> t.err, result |-> t.result, cbs |-> <<>>]

\* SpeechRecognizer.finalize_transcription: [st, err, result, cbs].  With
\* audio it reads self._sample_rate, which only start_streaming_transcription
\* sets.
finalize_transcription(r, audio_data, load_ok, inf) ==
  IF ~audio_data.none /\ Len(audio_data.chunks) > 0
  THEN IF ~r.sample_rate_set
       THEN [st |-> r, err |-> "TranscriptionError", result |-> NoResult,
             cbs |-> <<>>]
       ELSE LET t == transcribe(r, audio_data, load_ok, inf)
            IN  IF t.err # Ok
                THEN [st |-> t.st, err |-> "TranscriptionError",
                      result |-> NoResult, cbs |-> <<>>]
                ELSE [st |-> IF t.st.is_streaming
                             THEN stop_streaming_transcription(t.st) ELSE t.st,
                      err |-> Ok, result |-> t.result, cbs |-> <<>>]
  ELSE LET final_text == r.current_transcription
           r1 == IF r.is_streaming THEN stop_streaming_transcription(r) ELSE r
       IN  [st |-> r1, err |-> Ok, result |-> TranscriptionResult(final_text),
            cbs |-> IF r1.streaming_callback # None
                    THEN <<Callback(final_text, TRUE)>> ELSE <<>>]

\* the model load or the inference of a transcribe call raises
Faulted(r, load_ok, inf) ==
  \/ ~r.model_loaded /\ ~load_ok
  \/ inf = InferenceFails

\* the last call of the recognizer's API: prev is the call before it, the
\* _before fields are the recognizer's when the call arrived, changed is
\* whether the call changed the recognizer, given the audio passed to it,
\* fault whether the model failed it, result what it returned; partials is
\* the text of the last two partial callbacks of the stream started last,
\* and swallowed, where it is logged, the exception that process_audio_chunk
\* caught
NoRecCall == [op |-> None, prev |-> None, err |-> Ok, cbs |-> <<>>,
              partials |-> <<>>, swallowed |-> None,
              streaming_before |-> FALSE, window_before |-> <<>>,
              loaded_before |-> FALSE, timer_before |-> FALSE,
              changed |-> FALSE, chunk |-> NoChunk, appended |-> FALSE,
              inferred |-> <<>>, given |-> NoAudio, fault |-> FALSE,
              result |-> NoResult]

IsPartial(c) == ~c.is_final

\* the texts of the partial callbacks among cbs, after those in partials
PartialTexts(partials, cbs) ==
  LET new == SelectSeq(cbs, IsPartial)
      all == partials \o [k \in 1..Len(new) |-> new[k].text]
  IN  IF Len(all) <= 2 THEN all ELSE SubSeq(all, Len(all) - 1, Len(all))

RecCall(op, r, r2, err, cbs, result) ==
  [NoRecCall EXCEPT !.op = op, !.prev = rec_last.op, !.err = err,
                    !.cbs = cbs, !.result = result,
                    !.partials =
                      IF op = "start_streaming_transcription" /\ err = Ok
                      THEN <<>> ELSE PartialTexts(rec_last.partials, cbs),
                    !.streaming_before = r.is_streaming,
                    !.window_before = r.context_window,
                    !.loaded_before = r.model_loaded,
                    !.timer_before = r.unload_timer,
                    !.changed = (r2 # r)]

InitRecognizer ==
  /\ \E vad_enabled \in BOOLEAN : rec = NewSpeechRecognizer(vad_enabled)
  /\ rec_last = NoRecCall
  /\ fed = 0

\* a call of set_unload_timeout
RecSetUnloadTimeout ==
  /\ \E seconds \in {0, 1} :
       /\ seconds # rec.unload_after_seconds
       /\ rec' = set_unload_timeout(rec, seconds)
  /\ rec_last' = RecCall("set_unload_timeout", rec, rec', Ok, <<>>, NoResult)
  /\ UNCHANGED <<fed, notRecVars>>

\* a call of start_streaming_transcription
RecStartStreaming ==
  /\ \E load_ok \in BOOLEAN :
       LET r == start_streaming_transcription(rec, "cb", load_ok)
       IN  /\ rec' = r.st
           /\ rec_last' = RecCall("start_streaming_transcription", rec, rec', r.err, <<>>, NoResult)
  /\ UNCHANGED <<fed, notRecVars>>

\* What a call of process_audio_chunk meets: whether the bytes convert,
\* voice in the chunk, the inference, whether the streaming callback
\* returns; nothing is met after the first failure.
ProcessInputs ==
  {i \in [conv_ok : BOOLEAN, voiced : BOOLEAN, inf : InferenceOutcomes,
          cb_ok : BOOLEAN] :
     /\ ~i.conv_ok => (i.voiced /\ i.inf = "" /\ i.cb_ok)
     /\ ~i.voiced => (i.inf = "" /\ i.cb_ok)
     /\ i.inf = InferenceFails => i.cb_ok}

\* a call of process_audio_chunk with the next chunk
RecProcessChunk ==
  /\ fed < MaxChunks
  /\ \E i \in ProcessInputs :
       \E r \in {process_audio_chunk(rec, fed + 1, i.conv_ok, i.voiced, i.inf,
                                     i.cb_ok)} :
         /\ rec' = r.st
         /\ rec_last' = [RecCall("process_audio_chunk", rec, rec', Ok, r.cbs,
                                 NoResult)
                           EXCEPT !.chunk = fed + 1, !.appended = r.appended,
                                  !.inferred = r.inferred]
  /\ fed' = fed + 1
  /\ UNCHANGED notRecVars

\* a call of finalize_transcription: without audio, with empty audio, with
\* the audio of a recording
RecFinalize ==
  /\ \E audio_data \in {NoAudio, Bytes(NoData),
                        Bytes([chunks |-> <<1>>, filtered |-> FALSE])},
        load_ok \in BOOLEAN, inf \in InferenceOutcomes :
       LET r == finalize_transcription(rec, audio_data, load_ok, inf)
       IN  /\ rec' = r.st
           /\ rec_last' =
                [RecCall("finalize_transcription", rec, rec', r.err, r.cbs,
                         r.result)
                   EXCEPT !.given = audio_data,
                          !.fault = /\ ~audio_data.none
                                    /\ Len(audio_data.chunks) > 0
                                    /\ rec.sample_rate_set
                                    /\ Faulted(rec, load_ok, inf)]
  /\ UNCHANGED <<fed, notRecVars>>

\* a call of transcribe
RecTranscribe ==
  /\ \E load_ok \in BOOLEAN, inf \in InferenceOutcomes :
       LET r == transcribe(rec, Bytes([chunks |-> <<1>>, filtered |-> FALSE]),
                           load_ok, inf)
       IN  /\ rec' = r.st
           /\ rec_last' =
                [RecCall("transcribe", rec, rec', r.err, <<>>, r.result)
                   EXCEPT !.fault = Faulted(rec, load_ok, inf)]
  /\ UNCHANGED <<fed, notRecVars>>

\* a call of stop_streaming_transcription
RecStopStreaming ==
  /\ rec' = stop_streaming_transcription(rec)
  /\ rec_last' = RecCall("stop_streaming_transcription", rec, rec', Ok, <<>>, NoResult)
  /\ UNCHANGED <<fed, notRecVars>>

\* a call of unload_model
RecUnload ==
  /\ rec' = unload_model(rec)
  /\ rec_last' = RecCall("unload_model", rec, rec', Ok, <<>>, NoResult)
  /\ UNCHANGED <<fed, notRecVars>>

\* the idle-unload timer fires: threading.Timer calls unload_model
RecTimerFire ==
  /\ rec.unload_timer
  /\ rec' = unload_model([rec EXCEPT !.unload_timer = FALSE])
  /\ rec_last' = [NoRecCall EXCEPT !.op = "timer", !.prev = rec_last.op,
                                   !.partials = rec_last.partials]
  /\ UNCHANGED <<fed, notRecVars>>

NextRecognizer ==
  \/ RecSetUnloadTimeout
  \/ RecStartStreaming
  \/ RecProcessChunk
  \/ RecFinalize
  \/ RecTranscribe
  \/ RecStopStreaming
  \/ RecUnload
  \/ RecTimerFire

(***************************************************************************)
(* Text injection: input_simulator.py, the streaming mode.                 *)
(***************************************************************************)
\* InputSimulator.__init__
NewInputSimulator ==
  [is_streaming |-> FALSE, typed_char_count |-> 0, last_typed_text |-> ""]

\* InputSimulator.start_streaming_input
start_streaming_input(i) ==
  IF i.is_streaming THEN i
  ELSE [is_streaming |-> TRUE, typed_char_count |-> 0, last_typed_text |-> ""]

\* what the focused window does with an update: it takes it, no window is
\* focused, or the backend fails to delete or to type
TypingOutcomes == {"ok", "unfocused", "failed"}

\* InputSimulator.update_text: [st, err]
update_text(i, new_text, typing) ==
  IF ~i.is_streaming THEN [st |-> i, err |-> Ok]
  ELSE IF typing = "unfocused" THEN [st |-> i, err |-> "NoFocusedWindowError"]
  ELSE IF typing = "failed" /\ (i.typed_char_count > 0 \/ new_text # "")
  THEN [st |-> i, err |-> Ok]
  ELSE [st |-> [i EXCEPT !.typed_char_count = StrLen(new_text),
                         !.last_typed_text = new_text],
        err |-> Ok]

\* InputSimulator.finalize_input
finalize_input(i) ==
  IF ~i.is_streaming THEN i
  ELSE [is_streaming |-> FALSE, typed_char_count |-> 0, last_typed_text |-> ""]

(***************************************************************************)
(* Overlay: ui_overlay.py.  Levels are in percent.  A call that raises     *)
(* does so in its first GTK call (ui_ok is FALSE).  The fade-out, the      *)
(* checkmark animation and the window destruction run later on GLib        *)
(* timers.                                                                 *)
(***************************************************************************)
\* UIOverlay.__init__
NewUIOverlay ==
  [window |-> FALSE, is_visible |-> FALSE, is_error |-> FALSE,
   fade_out |-> FALSE, checkmark |-> FALSE, destroy_pending |-> FALSE,
   current_text |-> "", is_final_text |-> FALSE, audio_level |-> 0]

GtkError == "GtkError"

\* UIOverlay.show_recording
show_recording(u, ui_ok) ==
  IF ~ui_ok THEN [st |-> u, err |-> GtkError]
  ELSE [st |-> [u EXCEPT !.window = TRUE, !.is_error = FALSE,
                         !.current_text = "", !.is_final_text = FALSE,
                         !.is_visible = TRUE, !.fade_out = FALSE,
                         !.audio_level = 50],
        err |-> Ok]

\* UIOverlay.hide: the fade-out starts, the window is destroyed later
hide(u) ==
  IF ~u.is_visible \/ ~u.window THEN u
  ELSE [u EXCEPT !.fade_out = TRUE, !.destroy_pending = TRUE]

\* UIOverlay.show_completion, the definition at line 406 (it replaces the
\* one at line 312): the checkmark animation, which ends in hide
show_completion(u, ui_ok) ==
  IF ~ui_ok THEN [st |-> u, err |-> GtkError]
  ELSE [st |-> [u EXCEPT !.checkmark = TRUE], err |-> Ok]

\* UIOverlay.update_audio_level
update_audio_level(u, level) ==
  [u EXCEPT !.audio_level = IF level < 0 THEN 0 ELSE IF level > 100 THEN 100 ELSE level]

\* UIOverlay.update_transcription: the text is stored before the label is
\* touched
update_transcription(u, text, is_final, ui_ok) ==
  IF ~u.window THEN [st |-> u, err |-> Ok]
  ELSE [st |-> [u EXCEPT !.current_text = text, !.is_final_text = is_final],
        err |-> IF ui_ok THEN Ok ELSE GtkError]

\* UIOverlay.show_error
show_error(u, ui_ok) ==
  IF ~ui_ok THEN [st |-> u, err |-> GtkError]
  ELSE [st |-> IF ~u.is_visible
               THEN [u EXCEPT !.window = TRUE, !.is_error = TRUE,
                              !.is_visible = TRUE, !.fade_out = FALSE]
               ELSE [u EXCEPT !.window = TRUE, !.is_error = TRUE],
        err |-> Ok]

\* UIOverlay._cleanup_window
_cleanup_window(u) == [u EXCEPT !.window = FALSE, !.fade_out = FALSE]

\* UIOverlay.destroy
destroy(u) == _cleanup_window([u EXCEPT !.is_visible = FALSE])

\* _start_fade_animation.animate reaching opacity 0
fade_out_done(u) ==
  IF ~u.window THEN [u EXCEPT !.fade_out = FALSE]
  ELSE [u EXCEPT !.fade_out = FALSE, !.is_visible = FALSE]

\* UIOverlay._destroy_window_after_hide
_destroy_window_after_hide(u) ==
  IF ~u.is_visible /\ u.window
  THEN [_cleanup_window(u) EXCEPT !.destroy_pending = FALSE]
  ELSE [u EXCEPT !.destroy_pending = FALSE]

(***************************************************************************)
(* Daemon: daemon.py.  A handler works on the daemon's parts: the session  *)
(* flag _is_recording, the overlay, the recognizer, the injector and the   *)
(* audio engine.                                                           *)
(***************************************************************************)
Parts ==
  [is_recording |-> dmn.is_recording, ui |-> ui, rec |-> rec, inj |-> inj,
   audio |-> audio]

\* _handle_error without the call of show_error
_handle_error_LogOnly(u, ui_ok) == [st |-> u, shown |-> "no"]

\* ZephyrDaemon._handle_error: st the overlay; shown is "yes" when show_error
\* displayed the message, "raised" when it raised, which is logged
_handle_error(u, ui_ok) ==
  LET e == show_error(u, ui_ok)
  IN  [st |-> e.st, shown |-> IF e.err = Ok THEN "yes" ELSE "raised"]

\* the result of a handler: the parts after it, the branch it took, what it
\* caught, what _handle_error did with it ("no" when it was not called),
\* whether it started a capture thread, whether it called release_device;
\* for a release handler that called finalize_transcription, given is the
\* audio it passed, final the result returned and typed the text the
\* injector held when finalize_input was called
Handled(s, branch, err, shown, spawn, released) ==
  [st |-> s, branch |-> branch, err |-> err, shown |-> shown, spawn |-> spawn,
   released |-> released, given |-> <<>>, final |-> NoResult, typed |-> ""]

\* _on_hotkey_press, lines 367-375: the except clause
press_failed(s, err, err_ui_ok) ==
  LET h == _handle_error(s.ui, err_ui_ok)
  IN  Handled([s EXCEPT !.ui = h.st, !.is_recording = FALSE],
              "failed", err, h.shown, FALSE, FALSE)

\* the try block with the capture started before the recognizer stream and
\* the injector stream
press_start_CaptureFirst(s, ui_ok, err_ui_ok, load_ok, dev, tid) ==
  LET u == show_recording(s.ui, ui_ok)
      a == start_recording(s.audio, "cb", dev, tid)
      r == start_streaming_transcription(s.rec, "cb", load_ok)
      i == start_streaming_input(s.inj)
  IN  IF u.err # Ok
      THEN press_failed([s EXCEPT !.ui = u.st], u.err, err_ui_ok)
      ELSE IF a.err # Ok
      THEN press_failed([s EXCEPT !.ui = u.st, !.audio = a.st], a.err,
                        err_ui_ok)
      ELSE IF r.err # Ok
      THEN press_failed([s EXCEPT !.ui = u.st, !.audio = a.st, !.rec = r.st],
                        r.err, err_ui_ok)
      ELSE Handled([s EXCEPT !.ui = u.st, !.rec = r.st, !.inj = i,
                             !.audio = a.st, !.is_recording = TRUE],
                   "started", Ok, "no", TRUE, FALSE)

\* _on_hotkey_press, lines 345-375: the try block that starts a session
press_start(s, ui_ok, err_ui_ok, load_ok, dev, tid) ==
  LET u == show_recording(s.ui, ui_ok)
      r == start_streaming_transcription(s.rec, "cb", load_ok)
      i == start_streaming_input(s.inj)
      a == start_recording(s.audio, "cb", dev, tid)
  IN  IF u.err # Ok
      THEN press_failed([s EXCEPT !.ui = u.st], u.err, err_ui_ok)
      ELSE IF r.err # Ok
      THEN press_failed([s EXCEPT !.ui = u.st, !.rec = r.st], r.err, err_ui_ok)
      ELSE IF a.err # Ok
      THEN press_failed([s EXCEPT !.ui = u.st, !.rec = r.st, !.inj = i,
                                  !.audio = a.st], a.err, err_ui_ok)
      ELSE Handled([s EXCEPT !.ui = u.st, !.rec = r.st, !.inj = i,
                             !.audio = a.st, !.is_recording = TRUE],
                   "started", Ok, "no", TRUE, FALSE)

\* the press with no session active, without the test of the overlay
press_when_idle_NoVisibleTest(s, ui_ok, err_ui_ok, load_ok, dev, tid) ==
  press_start(s, ui_ok, err_ui_ok, load_ok, dev, tid)

\* _on_hotkey_press, lines 339-375: the press with no session active
press_when_idle(s, ui_ok, err_ui_ok, load_ok, dev, tid) ==
  IF s.ui.is_visible
  THEN Handled([s EXCEPT !.ui = hide(s.ui)], "hide", Ok, "no", FALSE, FALSE)
  ELSE press_start(s, ui_ok, err_ui_ok, load_ok, dev, tid)

\* the press handler without the test of the session flag
_on_hotkey_press_NoFlagTest(s, ui_ok, err_ui_ok, load_ok, dev, tid) ==
  press_when_idle(s, ui_ok, err_ui_ok, load_ok, dev, tid)

\* ZephyrDaemon._on_hotkey_press, the body under _recording_lock
_on_hotkey_press(s, ui_ok, err_ui_ok, load_ok, dev, tid) ==
  IF s.is_recording
  THEN Handled(s, "ignored", Ok, "no", FALSE, FALSE)
  ELSE press_when_idle(s, ui_ok, err_ui_ok, load_ok, dev, tid)

\* the except clause of the release handler without the release of the device
release_failed_NoRelease(s, err, err_ui_ok) ==
  LET h == _handle_error(s.ui, err_ui_ok)
  IN  Handled([s EXCEPT !.ui = h.st, !.is_recording = FALSE],
              "failed", err, h.shown, FALSE, FALSE)

\* _on_hotkey_release, lines 414-425: the except clause.  is_recording of the
\* engine is false here (stop_recording returned, or raised because it was
\* false), so release_device makes no stop_recording call of its own.
release_failed(s, err, err_ui_ok) ==
  LET h == _handle_error(s.ui, err_ui_ok)
  IN  Handled([s EXCEPT !.ui = h.st, !.is_recording = FALSE,
                        !.audio = release_device_rest(s.audio)],
              "failed", err, h.shown, FALSE, TRUE)

\* _on_hotkey_release, lines 392-412, from the return of stop_recording with
\* audio_data
release_after_stop(s, audio_data, load_ok, inf, ui_ok, err_ui_ok) ==
  LET f  == finalize_transcription(s.rec, Bytes(audio_data), load_ok, inf)
      u1 == update_transcription(s.ui, f.result.text, TRUE, ui_ok)
      u2 == show_completion(u1.st, ui_ok)
      s1 == IF Len(audio_data.chunks) > 0
            THEN [s EXCEPT !.rec = f.st, !.ui = u2.st] ELSE s
      given == audio_data.chunks
  IN  IF Len(audio_data.chunks) > 0 /\ f.err # Ok
      THEN [release_failed([s EXCEPT !.rec = f.st], f.err, err_ui_ok)
              EXCEPT !.given = given]
      ELSE IF Len(audio_data.chunks) > 0 /\ u1.err # Ok
      THEN [release_failed([s EXCEPT !.rec = f.st, !.ui = u1.st], u1.err,
                           err_ui_ok)
              EXCEPT !.given = given, !.final = f.result]
      ELSE IF Len(audio_data.chunks) > 0 /\ u2.err # Ok
      THEN [release_failed([s EXCEPT !.rec = f.st, !.ui = u2.st], u2.err,
                           err_ui_ok)
              EXCEPT !.given = given, !.final = f.result]
      ELSE [Handled([s1 EXCEPT !.inj = finalize_input(s1.inj),
                               !.is_recording = FALSE,
                               !.audio = release_device_rest(s1.audio)],
                    "stopped", Ok, "no", FALSE, TRUE)
              EXCEPT !.given = given,
                     !.final = IF Len(audio_data.chunks) > 0 THEN f.result
                               ELSE NoResult,
                     !.typed = s1.inj.last_typed_text]

\* the release handler without the test of the session flag, on an engine
\* that is not recording: stop_recording raises and the except clause runs
release_not_recording_NoFlagTest(s) == release_failed(s, "RuntimeError", TRUE)

\* _on_hotkey_release, lines 380-382: the release with no session active
release_not_recording(s) == Handled(s, "ignored", Ok, "no", FALSE, FALSE)

\* ZephyrDaemon._on_hotkey_release once the join in stop_recording has
\* returned
_on_hotkey_release_finish(s, nr, load_ok, inf, ui_ok, err_ui_ok) ==
  LET sr == stop_recording_finish(s.audio, nr)
  IN  release_after_stop([s EXCEPT !.audio = sr.st], sr.ret, load_ok, inf,
                         ui_ok, err_ui_ok)

\* ZephyrDaemon._on_transcription_update: what update_text raises is logged,
\* what update_transcription raises is logged and skips the injector
_on_transcription_update(s, text, is_final, ui_ok, typing) ==
  LET u == update_transcription(s.ui, text, is_final, ui_ok)
      i == update_text(s.inj, text, typing)
  IN  IF u.err # Ok THEN [s EXCEPT !.ui = u.st]
      ELSE IF ~is_final THEN [s EXCEPT !.ui = u.st, !.inj = i.st]
      ELSE [s EXCEPT !.ui = u.st]

\* ZephyrDaemon._on_audio_chunk: the level doubled and capped, then the
\* chunk to the recognizer, whose callback is _on_transcription_update.  The
\* chunk is a whole number of 16-bit frames read by the capture engine, which
\* converts, and _on_transcription_update swallows what it raises.
_on_audio_chunk(s, audio_chunk, voiced, inf, ui_ok, typing) ==
  LET amplified == IF s.audio.current_audio_level * 2 > 100 THEN 100
                   ELSE s.audio.current_audio_level * 2
      s1 == [s EXCEPT !.ui = update_audio_level(s.ui, amplified)]
      p  == process_audio_chunk(s1.rec, audio_chunk, TRUE, voiced, inf, TRUE)
      s2 == [s1 EXCEPT !.rec = p.st]
  IN  IF p.cbs = <<>> THEN s2
      ELSE _on_transcription_update(s2, p.cbs[1].text, p.cbs[1].is_final,
                                    ui_ok, typing)

\* the last run of a hotkey handler: visible_before is whether the overlay
\* was visible when it ran, core_changed whether it changed the recognizer,
\* the injector or the audio engine; given, final and typed are those of
\* Handled, and fed the chunks that had been handed to process_audio_chunk
\* when finalize_transcription was called; touched are the components among
\* recognizer, injector and audio engine that it changed, on_after those
\* among the four that were in effect when it returned (the overlay shown,
\* the recognizer and the injector streaming, the engine recording)
NoHandler ==
  [op |-> None, flag_before |-> FALSE, flag_after |-> FALSE, branch |-> None,
   changed |-> FALSE, shown |-> "no", released |-> FALSE,
   recording_after |-> FALSE, stream_after |-> FALSE, pyaudio_after |-> FALSE,
   visible_before |-> FALSE, core_changed |-> FALSE, given |-> <<>>,
   final |-> NoResult, typed |-> "", fed |-> {}, touched |-> {},
   on_after |-> {}]

\* the locks (threading.Lock, not reentrant): ZephyrDaemon._recording_lock,
\* SpeechRecognizer._model_lock, _chunks_lock and _transcription_lock,
\* AudioCapture._buffer_lock and _level_lock
Locks == {"session", "model", "chunks", "transcription", "buffer", "level"}

\* the listener thread that runs the hotkey handlers, the capture thread of
\* _recording_loop and the threading.Timer thread of the idle unload
LockThreads == {"hotkey", "loop", "timer"}

\* no lock held, every thread outside the code that takes locks, no capture
\* loop, no idle timer armed; order is the set of pairs <<h, l>> such that
\* some thread has acquired l while it held h
NoLocks ==
  [holder |-> [l \in Locks |-> None], prog |-> [t \in LockThreads |-> <<>>],
   order |-> {}, alive |-> FALSE, stop_event |-> FALSE, armed |-> FALSE]

\* ZephyrDaemon.__init__ and start: running, no session, stop not called
InitDaemon ==
  /\ dmn = [is_recording |-> FALSE, lock |-> FALSE, running |-> TRUE,
            late |-> FALSE, stop_pc |-> "idle", callbacks |-> 0]
  /\ ui = NewUIOverlay
  /\ inj = NewInputSimulator
  /\ d_last = NoHandler
  /\ fed_log = {}
  /\ lk = NoLocks

\* _initialize_subsystems, lines 130-141: the recognizer of the daemon, with
\* advanced.vad_enabled and advanced.unload_model_after of the default
\* configuration: voice activity detection on, an idle-unload timeout set
InitDaemonRecognizer ==
  /\ rec = set_unload_timeout(NewSpeechRecognizer(TRUE), 1)
  /\ rec_last = NoRecCall
  /\ fed = 0

\* the listener thread delivers a callback while the daemon runs; the one it
\* was delivering when stop() stopped the listener still runs
CanDeliver == (dmn.running \/ dmn.late) /\ dmn.callbacks < MaxCallbacks

\* the handler op returns with result h.  fed_log, the chunks handed to
\* process_audio_chunk, starts empty with a session and after the release
\* handler that ended one.
Commit(op, returned) ==
  \E h \in {returned} :
    /\ dmn' = [dmn EXCEPT !.is_recording = h.st.is_recording, !.lock = FALSE,
                          !.late = IF dmn.lock THEN dmn.late ELSE FALSE,
                          !.callbacks = IF dmn.lock THEN @ ELSE @ + 1]
    /\ ui' = h.st.ui
    /\ rec' = h.st.rec
    /\ inj' = h.st.inj
    /\ audio' = h.st.audio
    /\ d_last' = [op |-> op, flag_before |-> dmn.is_recording,
                  flag_after |-> h.st.is_recording, branch |-> h.branch,
                  changed |-> h.st # Parts, shown |-> h.shown,
                  released |-> h.released,
                  recording_after |-> h.st.audio.is_recording,
                  stream_after |-> h.st.audio.stream,
                  pyaudio_after |-> h.st.audio.pyaudio,
                  visible_before |-> ui.is_visible,
                  core_changed |-> \/ h.st.rec # rec
                                   \/ h.st.inj # inj
                                   \/ h.st.audio # audio,
                  given |-> h.given, final |-> h.final, typed |-> h.typed,
                  fed |-> IF h.given # <<>> THEN fed_log ELSE {},
                  touched |-> {c \in {"rec", "inj", "audio"} :
                                 h.st[c] # Parts[c]},
                  on_after |-> {c \in {"ui", "rec", "inj", "audio"} :
                                  IF c = "ui" THEN h.st.ui.is_visible
                                  ELSE IF c = "audio"
                                  THEN h.st.audio.is_recording
                                  ELSE h.st[c].is_streaming}]
    /\ fed_log' = IF h.spawn \/ dmn.lock THEN {} ELSE fed_log

\* What a run of the press handler meets: whether the overlay call works,
\* whether the model loads, what the audio device does, whether show_error
\* works.  The first step that fails ends the try block, so what the later
\* steps would have met is left at its default; show_error runs only after a
\* failure.
PressInputs ==
  {i \in [ui_ok : BOOLEAN, err_ui_ok : BOOLEAN, load_ok : BOOLEAN,
          dev : DeviceConditions] :
     /\ ~i.ui_ok => (i.load_ok /\ i.dev = Ok)
     /\ ~i.load_ok => i.dev = Ok
     /\ (i.ui_ok /\ i.load_ok /\ i.dev = Ok) => i.err_ui_ok}

\* the listener thread runs _on_hotkey_press
DaemonPress ==
  /\ ~dmn.lock
  /\ CanDeliver
  /\ \E i \in PressInputs :
       LET tid == IF FreeThreads # {} THEN NewThread ELSE 0
           h   == _on_hotkey_press(Parts, i.ui_ok, i.err_ui_ok, i.load_ok,
                                   i.dev, tid)
       IN  /\ h.spawn => tid # 0
           /\ Commit("press", h)
           /\ threads' = IF h.spawn THEN [threads EXCEPT ![tid].pc = "check"]
                         ELSE threads
           /\ session_log' = IF h.spawn THEN <<>> ELSE session_log
  /\ UNCHANGED <<next_seq, delivered, caller, last_call, last_append, stop_data,
                 rec_last, fed, hkVars, lockVars>>

\* the listener thread runs _on_hotkey_release up to the join in
\* stop_recording; with no session, or with stop_recording raising, it runs
\* to its end
DaemonReleaseBegin ==
  /\ ~dmn.lock
  /\ CanDeliver
  /\ IF ~dmn.is_recording
     THEN Commit("release", release_not_recording(Parts))
     ELSE LET b == stop_recording_begin(audio)
          IN  IF b.err # Ok
              THEN \E err_ui_ok \in BOOLEAN :
                     Commit("release", release_failed(Parts, b.err, err_ui_ok))
              ELSE /\ audio' = b.st
                   /\ dmn' = [dmn EXCEPT !.lock = TRUE, !.late = FALSE,
                                         !.callbacks = @ + 1]
                   /\ UNCHANGED <<ui, rec, inj, d_last, fed_log>>
  /\ UNCHANGED <<threads, next_seq, delivered, caller, last_call, last_append, stop_data, session_log,
                 rec_last, fed, hkVars, lockVars>>

\* What a run of the release handler meets after the join: the noise
\* filter, the model load and the inference of finalize_transcription, the
\* overlay calls, show_error; as for PressInputs, nothing is met after the
\* first failure.
ReleaseInputs ==
  {i \in [nr : NoiseOutcomes, load_ok : BOOLEAN, inf : InferenceOutcomes,
          ui_ok : BOOLEAN, err_ui_ok : BOOLEAN] :
     /\ ~i.load_ok => (i.inf = "" /\ i.ui_ok)
     /\ i.inf = InferenceFails => i.ui_ok
     /\ (i.load_ok /\ i.inf # InferenceFails /\ i.ui_ok) => i.err_ui_ok}

\* _on_hotkey_release from the return of the join to its end
DaemonReleaseFinish ==
  /\ dmn.lock
  /\ JoinReturns(audio)
  /\ \E i \in ReleaseInputs :
       Commit("release",
              _on_hotkey_release_finish(Parts, i.nr, i.load_ok, i.inf, i.ui_ok,
                                        i.err_ui_ok))
  /\ UNCHANGED <<threads, next_seq, delivered, caller, last_call, last_append, stop_data, session_log,
                 rec_last, fed, hkVars, lockVars>>

\* What a run of the chunk callback meets: voice in the chunk, the
\* inference, the overlay call, the focused window; a chunk without voice is
\* not inferred, a failed inference updates nothing, a failed overlay call
\* skips the injector.
ChunkInputs ==
  {i \in [voiced : BOOLEAN, inf : InferenceOutcomes, ui_ok : BOOLEAN,
          typing : TypingOutcomes] :
     /\ ~i.voiced => (i.inf = "" /\ i.ui_ok)
     /\ i.inf = InferenceFails => i.ui_ok
     /\ (~i.voiced \/ i.inf = InferenceFails \/ ~i.ui_ok) => i.typing = "ok"}

\* the capture thread runs the chunk callback _on_audio_chunk
ChunkDelivered(t) ==
  /\ threads[t].pc = "callback"
  /\ \E i \in ChunkInputs :
       \E s \in {_on_audio_chunk(Parts, threads[t].chunk, i.voiced, i.inf,
                                  i.ui_ok, i.typing)} :
         /\ ui' = s.ui
         /\ rec' = s.rec
         /\ inj' = s.inj
  /\ threads' = [threads EXCEPT ![t] = Thread("check", NoChunk, FALSE)]
  /\ UNCHANGED <<audio, dmn, d_last, next_seq, delivered, caller, last_call,
                 last_append, stop_data, session_log, rec_last, fed, hkVars, lockVars>>

\* the chunk callback, the chunks it hands on not logged
DaemonLoopCallback(t) == ChunkDelivered(t) /\ UNCHANGED fed_log

\* the chunk callback, with the log of the chunks it hands to
\* process_audio_chunk while a session is active
SessionLoopCallback(t) ==
  /\ ChunkDelivered(t)
  /\ fed_log' = IF dmn.is_recording THEN fed_log \cup {threads[t].chunk}
                ELSE fed_log

\* ZephyrDaemon.stop, lines 230-245: the listener is stopped; with the
\* session flag set stop_recording is called, and what it raises is logged
DaemonStopBegin ==
  /\ dmn.running
  /\ dmn.stop_pc = "idle"
  /\ LET b == stop_recording_begin(audio)
     IN  IF dmn.is_recording /\ b.err = Ok
         THEN /\ audio' = b.st
              /\ dmn' = [dmn EXCEPT !.running = FALSE, !.late = TRUE,
                                    !.stop_pc = "stop_join"]
         ELSE /\ audio' = audio
              /\ dmn' = [dmn EXCEPT !.running = FALSE, !.late = TRUE,
                                    !.stop_pc = "release"]
  /\ UNCHANGED <<ui, rec, inj, d_last, fed_log, threads, next_seq, delivered, caller,
                 last_call, last_append, stop_data, session_log, rec_last, fed, hkVars, lockVars>>

\* stop: the join in its stop_recording call has returned
DaemonStopJoined ==
  /\ dmn.stop_pc = "stop_join"
  /\ JoinReturns(audio)
  /\ \E nr \in NoiseOutcomes : audio' = stop_recording_finish(audio, nr).st
  /\ dmn' = [dmn EXCEPT !.stop_pc = "release"]
  /\ UNCHANGED <<ui, rec, inj, d_last, fed_log, threads, next_seq, delivered, caller,
                 last_call, last_append, stop_data, session_log, rec_last, fed, hkVars, lockVars>>

\* stop, lines 254-273, after release_device's own stop_recording call, if
\* it made one
stop_rest(s) ==
  [s EXCEPT !.audio = release_device_rest(s.audio), !.rec = unload_model(s.rec),
            !.ui = destroy(s.ui)]

\* stop, lines 254-273: release_device, which joins the capture loop if the
\* engine is recording, then unload_model and the overlay's destroy
DaemonStopRelease ==
  /\ dmn.stop_pc = "release"
  /\ IF audio.is_recording
     THEN /\ audio' = stop_recording_begin(audio).st
          /\ dmn' = [dmn EXCEPT !.stop_pc = "release_join"]
          /\ UNCHANGED <<ui, rec>>
     ELSE /\ audio' = stop_rest(Parts).audio
          /\ rec' = stop_rest(Parts).rec
          /\ ui' = stop_rest(Parts).ui
          /\ dmn' = [dmn EXCEPT !.stop_pc = "done"]
  /\ UNCHANGED <<inj, d_last, fed_log, threads, next_seq, delivered, caller,
                 last_call, last_append, stop_data, session_log, rec_last, fed, hkVars, lockVars>>

\* stop: the join in release_device's stop_recording call has returned
DaemonStopReleaseJoined ==
  /\ dmn.stop_pc = "release_join"
  /\ JoinReturns(audio)
  /\ \E nr \in NoiseOutcomes :
       LET s == stop_rest([Parts EXCEPT !.audio = stop_recording_finish(audio, nr).st])
       IN  /\ audio' = s.audio
           /\ rec' = s.rec
           /\ ui' = s.ui
  /\ dmn' = [dmn EXCEPT !.stop_pc = "done"]
  /\ UNCHANGED <<inj, d_last, fed_log, threads, next_seq, delivered, caller,
                 last_call, last_append, stop_data, session_log, rec_last, fed, hkVars, lockVars>>

\* GLib timer: the fade-out animation reaches opacity 0
UiFadeOutDone ==
  /\ ui.fade_out
  /\ ui' = fade_out_done(ui)
  /\ UNCHANGED <<dmn, inj, d_last, fed_log, audioVars, recVars, hkVars, lockVars>>

\* GLib timers: the checkmark animation ends and hide runs 300 ms later
UiCheckmarkDone ==
  /\ ui.checkmark
  /\ ui' = hide([ui EXCEPT !.checkmark = FALSE])
  /\ UNCHANGED <<dmn, inj, d_last, fed_log, audioVars, recVars, hkVars, lockVars>>

\* GLib timer: _destroy_window_after_hide, 350 ms after hide
UiDestroyAfterHide ==
  /\ ui.destroy_pending
  /\ ui' = _destroy_window_after_hide(ui)
  /\ UNCHANGED <<dmn, inj, d_last, fed_log, audioVars, recVars, hkVars, lockVars>>

\* the idle-unload timer of the daemon's recognizer fires
DaemonUnloadTimer ==
  /\ rec.unload_timer
  /\ rec' = unload_model([rec EXCEPT !.unload_timer = FALSE])
  /\ UNCHANGED <<rec_last, fed, dmn, ui, inj, d_last, fed_log, audioVars, hkVars, lockVars>>

Next ==
  \/ DaemonPress
  \/ DaemonReleaseBegin
  \/ DaemonReleaseFinish
  \/ DaemonStopBegin
  \/ DaemonStopJoined
  \/ DaemonStopRelease
  \/ DaemonStopReleaseJoined
  \/ UiFadeOutDone
  \/ UiCheckmarkDone
  \/ UiDestroyAfterHide
  \/ DaemonUnloadTimer
  \/ \E t \in ThreadIds : LoopCheck(t)
  \/ \E t \in ThreadIds : LoopRead(t)
  \/ \E t \in ThreadIds : LoopStore(t)
  \/ \E t \in ThreadIds : DaemonLoopCallback(t)

\* the handlers and the capture loop of the running daemon, the chunks fed
\* to the recognizer logged
NextSession ==
  \/ DaemonPress
  \/ DaemonReleaseBegin
  \/ DaemonReleaseFinish
  \/ \E t \in ThreadIds : LoopCheck(t)
  \/ \E t \in ThreadIds : LoopRead(t)
  \/ \E t \in ThreadIds : LoopStore(t)
  \/ \E t \in ThreadIds : SessionLoopCallback(t)

(***************************************************************************)
(* Specifications                                                          *)
(***************************************************************************)
\* a recognizer that receives no call
IdleRecognizer ==
  /\ rec = NewSpeechRecognizer(TRUE)
  /\ rec_last = NoRecCall
  /\ fed = 0

InitSpecHotkey == InitHotkey /\ InitAudio /\ IdleRecognizer /\ InitDaemon

SpecHotkey == InitSpecHotkey /\ [][NextHotkey]_vars

InitSpecAudio == IdleHotkey /\ InitAudio /\ IdleRecognizer /\ InitDaemon

SpecAudio == InitSpecAudio /\ [][NextAudio]_vars

InitSpecRecognizer == IdleHotkey /\ InitAudio /\ InitRecognizer /\ InitDaemon

SpecRecognizer == InitSpecRecognizer /\ [][NextRecognizer]_vars

\* threading.Timer runs its function once the interval has passed unless the
\* timer was cancelled: an armed timer that stays armed fires
SpecRecognizerFair ==
  InitSpecRecognizer /\ [][NextRecognizer]_vars /\ WF_vars(RecTimerFire)

InitSpec == IdleHotkey /\ InitAudio /\ InitDaemonRecognizer /\ InitDaemon

Spec == InitSpec /\ [][Next]_vars

SpecSession == InitSpec /\ [][NextSession]_vars

\* a client's chunk callback that hands the chunk to process_audio_chunk, as
\* _on_audio_chunk does, and then returns or raises; what process_audio_chunk
\* swallowed and whether the callback raised are logged
ClientChunkCallback(t) ==
  /\ threads[t].pc = "callback"
  /\ \E i \in ProcessInputs, raised \in BOOLEAN :
       \E r \in {process_audio_chunk(rec, threads[t].chunk, i.conv_ok, i.voiced,
                                     i.inf, i.cb_ok)} :
         /\ rec' = r.st
         /\ rec_last' = [RecCall("process_audio_chunk", rec, rec', Ok, r.cbs,
                                 NoResult)
                           EXCEPT !.chunk = threads[t].chunk,
                                  !.appended = r.appended,
                                  !.inferred = r.inferred,
                                  !.swallowed = r.swallowed]
         /\ threads' = [threads EXCEPT ![t] =
              Thread(after_chunk_callback(raised), NoChunk, raised)]
  /\ UNCHANGED <<audio, next_seq, delivered, caller, last_call, last_append,
                 stop_data, session_log, fed, daemonVars, hkVars, lockVars>>

\* a client of the capture engine and of the recognizer: it starts a
\* recording and a stream, and its chunk callback feeds the recognizer
NextChunks ==
  \/ AudioStart
  \/ RecStartStreaming
  \/ \E t \in ThreadIds : LoopCheck(t)
  \/ \E t \in ThreadIds : LoopRead(t)
  \/ \E t \in ThreadIds : LoopStore(t)
  \/ \E t \in ThreadIds : ClientChunkCallback(t)

SpecChunks == InitSpecRecognizer /\ [][NextChunks]_vars

\* The listener thread that runs the release handler goes on once the join
\* has returned, and the capture thread takes the steps of its loop that do
\* not block (the test of the stop event, the append to the buffer).  A read
\* of the device and a chunk callback may block for ever.
SpecSessionFair ==
  /\ InitSpec
  /\ [][NextSession]_vars
  /\ WF_vars(DaemonReleaseFinish)
  /\ \A t \in ThreadIds : WF_vars(LoopCheck(t)) /\ WF_vars(LoopStore(t))

(***************************************************************************)
(* Claims about the hotkey listeners, checked under SpecHotkey             *)
(***************************************************************************)
IsPress(c) == c.kind = "press"

IsRelease(c) == c.kind = "release"

\* C4: with the hotkey ctrl+alt_r and the raw events ctrl down, alt_r down,
\* alt_r up, ctrl up, the press callback fires exactly once, at the second
\* event, and the release callback exactly once, at the third.
C4_PressAtSecondReleaseAtThird ==
  (/\ hk.hotkey = <<"ctrl", "alt_r">>
   /\ ev_log = << <<"ctrl", "down">>, <<"alt_r", "down">>,
                  <<"alt_r", "up">>, <<"ctrl", "up">> >>)
  => cb_log = << [kind |-> "press", at |-> 2], [kind |-> "release", at |-> 3] >>

\* C5: a down event fires the press callback only when the key was not
\* latched, and then latches it and records the start time; a down event
\* received while the key is latched fires nothing and leaves it latched; two
\* press callbacks are always separated by an up event of the target key.
C5_PressFiresOncePerLatch ==
  /\ (last_ev.dir = "down" /\ last_ev.latched_before)
       => (last_ev.fired = "none" /\ hk.key_pressed)
  /\ last_ev.fired = "press"
       => /\ last_ev.dir = "down" /\ last_ev.key = hk.target_key
          /\ ~last_ev.latched_before
          /\ hk.key_pressed /\ hk.press_start_time = last_ev.t
  /\ \A i, j \in DOMAIN cb_log :
        (i < j /\ IsPress(cb_log[i]) /\ IsPress(cb_log[j]))
        => \E k \in DOMAIN ev_log :
              /\ cb_log[i].at < k /\ k < cb_log[j].at
              /\ ev_log[k] = <<hk.target_key, "up">>

\* C5 witness: the target key went down, latched and fired, and its next
\* event was a repeated down that fired nothing.
C5_Witness ==
  /\ Len(ev_log) >= 2
  /\ ev_log[Len(ev_log)] = <<hk.target_key, "down">>
  /\ ev_log[Len(ev_log) - 1] = <<hk.target_key, "down">>
  /\ last_ev.latched_before /\ last_ev.fired = "none"
  /\ Len(SelectSeq(cb_log, IsPress)) = 1
  /\ cb_log[Len(cb_log)] = [kind |-> "press", at |-> Len(ev_log) - 1]

\* C6: an up event of the target key while it is latched unlatches it and
\* fires the release callback, whatever the press duration.
C6_ReleaseFiresForEveryDuration ==
  (last_ev.dir = "up" /\ last_ev.key = hk.target_key /\ last_ev.latched_before)
  => (last_ev.fired = "release" /\ ~hk.key_pressed)

(***************************************************************************)
(* Claims about the audio capture engine, checked under SpecAudio          *)
(***************************************************************************)
\* the last n elements of a sequence
LastN(s, n) == IF Len(s) <= n THEN s ELSE SubSeq(s, Len(s) - n + 1, Len(s))

\* C8: the capture ring buffer never holds more chunks than its capacity,
\* and every append leaves in it the most recent chunks, in capture order:
\* an append to a full buffer evicts exactly the oldest chunk.
C8_RingBufferBounded ==
  /\ Len(audio.audio_buffer) <= max_buffer_size
  /\ Len(last_append.after) <= max_buffer_size
  /\ last_append.chunk # NoChunk =>
       /\ last_append.after
            = LastN(Append(last_append.before, last_append.chunk), max_buffer_size)
       /\ Len(last_append.before) = max_buffer_size
            => last_append.after = Append(Tail(last_append.before), last_append.chunk)

\* C8 witness: a chunk was appended to a full buffer.
C8_Witness ==
  /\ last_append.chunk # NoChunk
  /\ Len(last_append.before) = max_buffer_size
  /\ Len(last_append.after) = max_buffer_size
  /\ last_append.after[max_buffer_size] = last_append.chunk

\* C10: stop_recording called with no recording in progress raises
\* RuntimeError and changes nothing of the engine.
C10_StopWithoutStartNoEffect ==
  (last_call.op = "stop_recording" /\ last_call.err # Ok)
  => (last_call.err = "RuntimeError" /\ ~last_call.changed /\ caller = "idle")

\* C10 witness: stop_recording raised on an engine that had recorded before
\* and still holds its PyAudio handle.
C10_Witness ==
  /\ last_call.op = "stop_recording" /\ last_call.err = "RuntimeError"
  /\ ~audio.is_recording /\ audio.pyaudio /\ next_seq > 1

(***************************************************************************)
(* Claims about the speech recognizer, checked under SpecRecognizer        *)
(***************************************************************************)
IsFinal(c) == c.is_final

\* C7: every finalize_transcription call made while a stream is active, with
\* complete audio or without, invokes the streaming callback exactly once with
\* is_final = True before it returns.
C7_FinalizeEmitsFinalCallback ==
  (rec_last.op = "finalize_transcription" /\ rec_last.streaming_before)
  => Len(SelectSeq(rec_last.cbs, IsFinal)) = 1

\* C9: the context window never holds more than 2 chunks; a chunk appended to
\* a full window drops the oldest, and the inference pass of a
\* process_audio_chunk call runs over exactly the chunks then in the window,
\* in arrival order.
C9_ContextWindowBounded ==
  /\ Len(rec.context_window) <= 2
  /\ (rec_last.op = "process_audio_chunk" /\ rec_last.appended)
       => /\ rec.context_window
               = LastN(Append(rec_last.window_before, rec_last.chunk), 2)
          /\ rec_last.inferred \in {<<>>, rec.context_window}
  /\ (rec_last.op = "process_audio_chunk" /\ ~rec_last.appended)
       => (rec.context_window = rec_last.window_before /\ rec_last.inferred = <<>>)

\* C9 witness: a third chunk entered a full window and an inference pass ran
\* over the two chunks left in it.
C9_Witness ==
  /\ rec_last.op = "process_audio_chunk" /\ rec_last.appended
  /\ Len(rec_last.window_before) = 2
  /\ rec.context_window = <<rec_last.window_before[2], rec_last.chunk>>
  /\ rec_last.inferred = rec.context_window

(***************************************************************************)
(* Claims about the daemon's handlers, checked under Spec                  *)
(***************************************************************************)
\* C1: at most one recording session is active.  A press handler that runs
\* while the session flag is true takes the ignore branch: it starts nothing,
\* changes no state of the overlay, the recognizer, the injector or the audio
\* engine, and leaves the flag true; only a press that finds the flag false
\* performs the Idle -> Recording transition.
C1_PressWhileRecordingIsNoOp ==
  /\ (d_last.op = "press" /\ d_last.flag_before)
       => (d_last.branch = "ignored" /\ ~d_last.changed /\ d_last.flag_after)
  /\ (d_last.op = "press" /\ d_last.branch = "started")
       => (~d_last.flag_before /\ d_last.flag_after)

\* C1 witness: a press arrived while a session was recording and was ignored.
C1_Witness ==
  /\ d_last.op = "press" /\ d_last.flag_before /\ d_last.branch = "ignored"
  /\ dmn.is_recording /\ audio.is_recording /\ rec.is_streaming

\* C2: every run of the release handler with a session active ends with
\* release_device called, the session flag false and the device closed
\* (engine not recording, no stream, PyAudio terminated), whichever step
\* raised.
C2_ReleaseAlwaysReleasesDevice ==
  (d_last.op = "release" /\ d_last.flag_before)
  => /\ d_last.released
     /\ ~d_last.flag_after
     /\ ~d_last.recording_after /\ ~d_last.stream_after /\ ~d_last.pyaudio_after

\* C2 witness: a release handler whose try block raised ended with the device
\* released and the flag false.
C2_Witness ==
  /\ d_last.op = "release" /\ d_last.flag_before /\ d_last.branch = "failed"
  /\ d_last.released /\ ~d_last.flag_after /\ ~d_last.pyaudio_after

TranscribedAndIdle ==
  /\ rec_last.op = "transcribe"
  /\ rec_last.err = Ok
  /\ rec.unload_after_seconds > 0

\* the idle timer has unloaded the model, or a further call has been made
UnloadedByTimerOrCalled ==
  \/ rec_last.op = "timer" /\ ~rec.model_loaded
  \/ rec_last.op \notin {"transcribe", "timer"}

\* C12: with a positive unload timeout, after a transcribe call has completed
\* and while no further call is made, the idle timer eventually unloads the
\* model; no unload_model call is needed.
C12_IdleTimerUnloadsModel == TranscribedAndIdle ~> UnloadedByTimerOrCalled

\* the timer armed by a transcribe call has fired with no call in between
\* and the model is unloaded
C12_Witness ==
  /\ rec_last.op = "timer"
  /\ rec_last.prev = "transcribe"
  /\ rec.unload_after_seconds > 0
  /\ ~rec.model_loaded

\* C13: a recognition call that arrives while the model is loaded and the
\* idle-unload timer is armed cancels that timer: when a
\* start_streaming_transcription or process_audio_chunk call made in such a
\* state has returned, no timer is armed.
C13_CallWhileLoadedCancelsTimer ==
  ( /\ rec_last.op \in {"start_streaming_transcription", "process_audio_chunk"}
    /\ rec_last.loaded_before
    /\ rec_last.timer_before )
  => ~rec.unload_timer

(***************************************************************************)
(* Claims about the construction of a hotkey listener, checked under       *)
(* SpecHotkey                                                              *)
(***************************************************************************)
\* the key names the backend's _parse_hotkey knows: for pynput the names of
\* KEY_MAPPING and, as a target, a single character; for evdev the names of
\* key_map
KnownKeyName(b, name, is_target) ==
  IF b = "pynput"
  THEN name \in DOMAIN KEY_MAPPING \/ (is_target /\ StrLen(name) = 1)
  ELSE name \in DOMAIN evdev_key_map

\* C14: a listener of either backend exists and runs only if every part of
\* its hotkey string is a key name the backend knows, and then its target
\* and modifiers are the ones the string names: an invalid string fails at
\* construction, no key is substituted and no modifier is dropped.
C14_InvalidHotkeyFailsAtConstruction ==
  hk.is_running =>
    /\ \A i \in DOMAIN hk.hotkey :
         KnownKeyName(backend, hk.hotkey[i], i = Len(hk.hotkey))
    /\ Cardinality(hk.required_modifiers)
         = Cardinality(Range(SubSeq(hk.hotkey, 1, Len(hk.hotkey) - 1)))

\* a sequence of chunks in capture order: the device's sequence numbers rise
InCaptureOrder(chunks) ==
  \A i, j \in DOMAIN chunks : i < j => chunks[i] < chunks[j]

\* C15: stop_recording returns the chunks the capture loop has appended to
\* the ring buffer since start_recording and that are within its capacity,
\* in capture order; none that was buffered before the call returned is
\* missing, also when the join has timed out.
C15_StopReturnsEveryBufferedChunk ==
  (last_call.op = "stop_recording" /\ last_call.err = Ok) =>
    /\ last_call.ret.chunks = last_call.log
    /\ InCaptureOrder(last_call.ret.chunks)

\* C16: in every state after stop_recording or release_device has returned
\* and before the next start_recording, the device is fully closed: no open
\* input stream, no PyAudio handle, and no capture loop still running.
C16_DeviceClosedBetweenSessions ==
  ( /\ caller = "idle"
    /\ last_call.op \in {"stop_recording", "release_device"}
    /\ last_call.err = Ok )
  => /\ ~audio.stream
     /\ ~audio.pyaudio
     /\ \A t \in ThreadIds : threads[t].pc = "none"

\* C19: when start_recording fails because of the device, it raises the
\* error of the condition: MicrophoneNotFoundError with no input device,
\* PermissionDeniedError with access denied, DeviceBusyError with the device
\* busy; for none of the three it raises the generic AudioDeviceError.
C19_DeviceFailureRaisesSpecificError ==
  ( /\ last_call.op = "start_recording"
    /\ last_call.err \notin {Ok, "RuntimeError"} )
  => /\ last_call.dev = "no_input" => last_call.err = "MicrophoneNotFoundError"
     /\ last_call.dev \in {"init_permission", "open_permission"}
          => last_call.err = "PermissionDeniedError"
     /\ last_call.dev = "open_busy" => last_call.err = "DeviceBusyError"

(***************************************************************************)
(* Claims about streaming sessions and unload_model, checked under         *)
(* SpecRecognizer                                                          *)
(***************************************************************************)
\* C17: start_streaming_transcription called while a stream is active raises
\* the already-streaming RuntimeError and changes nothing of the recognizer
\* (callback, context window and partial text included); a call that
\* succeeds leaves the recognizer streaming with an empty context window and
\* an empty partial text.
C17_StartStreamingWhileActiveFails ==
  rec_last.op = "start_streaming_transcription" =>
    /\ rec_last.streaming_before
         => (rec_last.err = "RuntimeError" /\ ~rec_last.changed)
    /\ (~rec_last.streaming_before /\ rec_last.err = Ok)
         => /\ rec.is_streaming
            /\ rec.context_window = <<>>
            /\ rec.current_transcription = ""

\* start_streaming_transcription has raised on a stream that holds a chunk
\* in its context window and a partial text, and both are still there
C17_Witness ==
  /\ rec_last.op = "start_streaming_transcription"
  /\ rec_last.streaming_before
  /\ rec_last.err = "RuntimeError"
  /\ rec.context_window # <<>>
  /\ rec.current_transcription # ""
  /\ rec.streaming_callback # None

C20_UnloadModelIdempotent ==
  rec_last.op = "unload_model" =>
    /\ rec_last.err = Ok
    /\ ~rec.model_loaded
    /\ ~rec.unload_timer

(***************************************************************************)
(* Claims about the daemon's session handling, checked under Spec          *)
(***************************************************************************)
\* C21: a release callback that arrives while no session is active is
\* ignored: the release handler changes nothing of the audio engine, the
\* recognizer, the injector or the overlay, calls neither show_error nor
\* release_device, and leaves the session flag false.
C21_ReleaseWithoutSessionIgnored ==
  (d_last.op = "release" /\ ~d_last.flag_before)
  => /\ d_last.branch = "ignored"
     /\ ~d_last.changed
     /\ d_last.shown = "no"
     /\ ~d_last.released
     /\ ~d_last.flag_after

\* a release arrived after a press whose start failed: no session was
\* active, the error stayed on the overlay and the recognizer stayed as the
\* failed press left it
C21_Witness ==
  /\ d_last.op = "release" /\ ~d_last.flag_before /\ d_last.branch = "ignored"
  /\ ~dmn.is_recording
  /\ dmn.callbacks = 2
  /\ ui.is_error /\ ui.is_visible

(***************************************************************************)
(* Claims about the modifier test of the listeners, checked under          *)
(* SpecHotkey                                                              *)
(***************************************************************************)
\* C22: a down event of the target key that arrives while a required
\* modifier is not held fires no callback, leaves the latch as it was and is
\* passed through unconsumed; while such a down event of an unlatched key is
\* outstanding (no press callback has fired since), the up event of the
\* target key fires no release callback.
C22_TargetWithoutModifiersPassesThrough ==
  /\ ( /\ last_ev.dir = "down"
       /\ last_ev.key = hk.target_key
       /\ ~last_ev.mods_held )
     => /\ last_ev.fired = "none"
        /\ last_ev.ret
        /\ hk.key_pressed = last_ev.latched_before
  /\ ( /\ last_ev.dir = "up"
       /\ last_ev.key = hk.target_key
       /\ last_ev.unmatched_before )
     => last_ev.fired = "none"

\* the target key of a hotkey with a modifier went down without the
\* modifier, and its up event has fired nothing
C22_Witness ==
  /\ hk.required_modifiers # {}
  /\ last_ev.dir = "up"
  /\ last_ev.key = hk.target_key
  /\ last_ev.unmatched_before
  /\ last_ev.fired = "none"
  /\ ~hk.key_pressed

\* C23: a press that arrives with no session active and the overlay visible
\* only dismisses the overlay: it changes nothing of the recognizer, the
\* injector or the audio engine, starts no capture thread, shows no error
\* and leaves the session flag false.
C23_PressOnVisibleOverlayOnlyDismisses ==
  (d_last.op = "press" /\ ~d_last.flag_before /\ d_last.visible_before)
  => /\ d_last.branch = "hide"
     /\ ~d_last.core_changed
     /\ d_last.shown = "no"
     /\ ~d_last.flag_after
     /\ ~d_last.recording_after

\* a press found the error of a failed start still on the overlay and
\* started its fade-out; no session is active
C23_Witness ==
  /\ d_last.op = "press" /\ ~d_last.flag_before /\ d_last.visible_before
  /\ d_last.branch = "hide"
  /\ ui.fade_out /\ ui.is_error
  /\ ~dmn.is_recording /\ ~audio.is_recording

\* C24: when the release handler of an active session has obtained the final
\* result from finalize_transcription, the final text is on the overlay and
\* is the text the injector holds when finalize_input ends its streaming
\* mode.
C24_FinalTextReachesOverlayAndInjector ==
  ( /\ d_last.op = "release"
    /\ d_last.flag_before
    /\ d_last.branch = "stopped"
    /\ d_last.final.is_final )
  => /\ d_last.typed = d_last.final.text
     /\ ui.window => ui.current_text = d_last.final.text

\* C25, checked under SpecSession: the audio the release handler passes to
\* finalize_transcription holds every chunk that was handed to
\* process_audio_chunk during the session before finalize_transcription was
\* called, in capture order.
C25_FinalizeAudioHoldsEveryFedChunk ==
  (d_last.op = "release" /\ d_last.given # <<>>)
  => /\ d_last.fed \subseteq Range(d_last.given)
     /\ InCaptureOrder(d_last.given)

(***************************************************************************)
(* Claims about the session state, checked under SpecSessionFair and Spec  *)
(***************************************************************************)
\* the session state: Finalizing while the release handler of a session
\* holds _recording_lock, Recording while the session flag is set, else Idle
SessionState ==
  IF dmn.lock THEN "Finalizing"
  ELSE IF dmn.is_recording THEN "Recording"
  ELSE "Idle"

\* the changes of the session state; a release handler whose stop_recording
\* raises at once passes through Finalizing within one step
SessionStep ==
  SessionState' # SessionState =>
    <<SessionState, SessionState'>>
      \in {<<"Idle", "Recording">>, <<"Recording", "Finalizing">>,
           <<"Finalizing", "Idle">>, <<"Recording", "Idle">>}

\* C26: the session state changes only along Idle -> Recording ->
\* Finalizing -> Idle, and a release handler that has begun to end a session
\* eventually returns with the session Idle: the join of the capture thread
\* is bounded, so a capture loop that does not exit cannot hold the handler,
\* and whichever step fails the handler clears the session flag.
C26_ReleaseEventuallyIdle ==
  /\ [][SessionStep]_vars
  /\ (SessionState = "Finalizing") ~> (SessionState = "Idle")

\* the release handler has returned with the session Idle while the capture
\* thread, blocked in a read when the join timed out, has not ended
C26_Witness ==
  /\ d_last.op = "release" /\ d_last.flag_before
  /\ SessionState = "Idle"
  /\ audio.recording_thread # 0
  /\ threads[audio.recording_thread].pc = "read"


(***************************************************************************)
(* Claims about the start of a session, checked under Spec                 *)
(***************************************************************************)
\* the capture loop of the session in progress is handing a chunk to the
\* chunk callback
SessionDelivering ==
  /\ SessionState = "Recording"
  /\ audio.recording_thread # 0
  /\ threads[audio.recording_thread].pc = "callback"

\* C27: the press handler starts the overlay, the recognizer stream, the
\* injector stream and the capture in this order, each only when the ones
\* before it succeeded, and sets the session flag only when all four did;
\* so whenever the capture loop of the session in progress delivers a chunk,
\* the recognizer is streaming and the injector is in streaming mode.
C27_StartOrder ==
  /\ (d_last.op = "press" /\ ~d_last.flag_before)
       => /\ "rec" \in d_last.touched => "ui" \in d_last.on_after
          /\ "inj" \in d_last.touched => "rec" \in d_last.on_after
          /\ "audio" \in d_last.touched
               => {"rec", "inj"} \subseteq d_last.on_after
          /\ d_last.flag_after
               => /\ d_last.branch = "started"
                  /\ d_last.on_after = {"ui", "rec", "inj", "audio"}
  /\ SessionDelivering => rec.is_streaming /\ inj.is_streaming

\* a chunk is delivered in a session whose press handler started all four
C27_Witness ==
  /\ SessionDelivering
  /\ d_last.op = "press" /\ d_last.branch = "started"
  /\ rec.is_streaming /\ inj.is_streaming


(***************************************************************************)
(* Claims about locks and blocking calls, checked under Spec               *)
(***************************************************************************)
\* the join of the capture thread in stop_recording is in progress: the stop
\* event is set and the engine has not yet cleared its recording flag
JoinInProgress == audio.is_recording /\ audio.stop_event

\* C28: no handler is inside a blocking call (here the join of the capture
\* thread in stop_recording) while it holds _recording_lock, the session
\* lock of the orchestrator.
C28_NoBlockingCallUnderSessionLock == ~(dmn.lock /\ JoinInProgress)


(***************************************************************************)
(* Claims about the unload timeout and the partial results, checked under  *)
(* SpecRecognizer                                                          *)
(***************************************************************************)
\* a step that takes the model out of the loaded state while the configured
\* unload timeout is 0 is a call of unload_model, not the idle timer
UnloadAtTimeoutZero ==
  (rec.unload_after_seconds = 0 /\ rec.model_loaded /\ ~rec'.model_loaded)
  => rec_last'.op = "unload_model"

\* C29: while the configured unload timeout is 0, from construction or set
\* by a later set_unload_timeout(0), the idle timer never unloads the model;
\* the model leaves the loaded state only through unload_model().
C29_TimeoutZeroNeverUnloads == [][UnloadAtTimeoutZero]_vars


\* the text of the last partial callback of the stream, "" when there was
\* none
LastPartial ==
  IF rec_last.partials = <<>> THEN ""
  ELSE rec_last.partials[Len(rec_last.partials)]

\* C30: during a stream process_audio_chunk calls the streaming callback
\* only with is_final false and only with a text that differs from the last
\* partial it emitted (from the empty text when it has emitted none): no
\* two consecutive partial callbacks of a stream carry the same text, and
\* the stored running partial is the text of the last partial callback.
C30_PartialOnlyOnChange ==
  /\ (rec_last.op = "process_audio_chunk" /\ rec_last.cbs # <<>>)
       => /\ Len(rec_last.cbs) = 1
          /\ ~rec_last.cbs[1].is_final
          /\ rec_last.cbs[1].text = LastPartial
  /\ Len(rec_last.partials) = 1 => rec_last.partials[1] # ""
  /\ Len(rec_last.partials) = 2 => rec_last.partials[1] # rec_last.partials[2]
  /\ rec.is_streaming => rec.current_transcription = LastPartial

\* an inference pass of a stream returned the text of the last partial
\* callback again and no callback was made, after two partials that differ
C30_Witness ==
  /\ rec_last.op = "process_audio_chunk"
  /\ rec_last.inferred # <<>>
  /\ rec_last.cbs = <<>>
  /\ rec.is_streaming
  /\ Len(rec_last.partials) = 2
  /\ rec.current_transcription = rec_last.partials[2]


(***************************************************************************)
(* Claims about failures while a chunk is processed, checked under         *)
(* SpecChunks                                                              *)
(***************************************************************************)
\* C31: a failure while one chunk is processed (the conversion, the
\* inference, the streaming callback) is swallowed by process_audio_chunk:
\* the stream stays active with its callback, and a chunk is left out of the
\* context window only when it does not convert or holds no voice, never
\* because an earlier chunk failed; and a capture loop whose chunk callback
\* raised goes on to the test of its stop event.
C31_ChunkFailureSwallowed ==
  /\ (rec_last.op = "process_audio_chunk" /\ rec_last.streaming_before)
       => /\ rec_last.err = Ok
          /\ rec.is_streaming
          /\ rec.streaming_callback = "cb"
          /\ ~rec_last.appended
               => (rec_last.swallowed = "conversion" \/ rec.vad_enabled)
          /\ rec_last.swallowed = "callback"
               => rec.current_transcription = rec_last.cbs[1].text
  /\ \A t \in ThreadIds : threads[t].raised => threads[t].pc = "check"

\* a chunk of a stream that follows one which produced no partial text was
\* appended to the window and inferred, the streaming callback raised on its
\* text, and the capture loop went on after its chunk callback raised
C31_Witness ==
  /\ rec_last.op = "process_audio_chunk"
  /\ rec_last.streaming_before
  /\ rec_last.swallowed = "callback"
  /\ rec_last.window_before # <<>>
  /\ rec_last.partials = <<rec_last.cbs[1].text>>
  /\ rec.is_streaming
  /\ \E t \in ThreadIds : threads[t].raised /\ threads[t].pc = "check"


(***************************************************************************)
(* Live reconfiguration: HotkeyListener.start / stop / set_hotkey,         *)
(* SpeechRecognizer.set_language and ZephyrDaemon._on_config_changed.      *)
(***************************************************************************)
\* HotkeyListener.stop
stop(h) ==
  IF ~h.is_running THEN h
  ELSE [h EXCEPT !.is_running = FALSE, !.key_pressed = FALSE,
                 !.press_start_time = NoTime, !.pressed_modifiers = {}]

\* HotkeyListener.start
start(h) ==
  IF h.is_running THEN [st |-> h, err |-> "RuntimeError"]
  ELSE [st |-> [h EXCEPT !.key_pressed = FALSE, !.press_start_time = NoTime,
                         !.pressed_modifiers = {}, !.is_running = TRUE],
        err |-> Ok]

\* HotkeyListener.set_hotkey: the listener is stopped and the name assigned
\* before _parse_hotkey can raise
set_hotkey(h, hotkey) ==
  LET was_running == h.is_running
      h1 == IF was_running THEN stop(h) ELSE h
      h2 == [h1 EXCEPT !.hotkey = hotkey]
      p  == _parse_hotkey(hotkey)
  IN  IF ~p.ok THEN [st |-> h2, err |-> "HotkeyRegistrationError"]
      ELSE LET h3 == [h2 EXCEPT !.target_key = p.target_key,
                                !.required_modifiers = p.required_modifiers]
           IN  IF was_running THEN start(h3) ELSE [st |-> h3, err |-> Ok]

\* SpeechRecognizer.set_language
set_language(r, language) ==
  [r EXCEPT !.language = IF language = "auto" THEN None ELSE language]

\* a loaded configuration: Config.validate accepts every non-empty hotkey
\* string
Config(hotkey, language, unload_model_after) ==
  [hotkey |-> hotkey, language |-> language,
   unload_model_after |-> unload_model_after]

\* ZephyrDaemon._on_config_changed for listener h of backend b and recognizer
\* r; load_ok is whether config_manager.load() returns config.  The evdev
\* listener has no set_hotkey method, so the call raises AttributeError; the
\* one except clause of the handler logs whatever the try block raised.
_on_config_changed(b, h, r, load_ok, config) ==
  IF ~load_ok THEN [hk |-> h, rec |-> r, err |-> "ValueError"]
  ELSE IF b = "evdev" THEN [hk |-> h, rec |-> r, err |-> "AttributeError"]
  ELSE LET s == set_hotkey(h, config.hotkey)
       IN  IF s.err # Ok THEN [hk |-> s.st, rec |-> r, err |-> s.err]
           ELSE [hk |-> s.st,
                 rec |-> set_unload_timeout(set_language(r, config.language),
                                            config.unload_model_after),
                 err |-> Ok]

\* the hotkey strings set_hotkey is given: two valid ones and one that
\* _parse_hotkey rejects
NewHotkeys == {<<"f9">>, <<"ctrl", "f9">>, <<"bogus">>}

\* the configurations a reload draws from
ReloadConfigs ==
  {Config(<<"f9">>, "en", 0), Config(<<"ctrl", "f9">>, "auto", 2),
   Config(<<"bogus">>, "de", 2)}

\* calls of the listener's interface count as events of the behaviour; the
\* last one is recorded with the string it was given, the listener before it
\* and what it raised
Lifecycle(call, given, err) ==
  /\ ev_log' = Append(ev_log, <<call, "call">>)
  /\ last_ev' = [key |-> call, dir |-> "call", latched_before |-> hk.key_pressed,
                 fired |-> "none", ret |-> TRUE, t |-> now, mods_held |-> TRUE,
                 unmatched_before |-> last_ev.unmatched, unmatched |-> FALSE,
                 given |-> given, before |-> hk, err |-> err]
  /\ UNCHANGED <<backend, now, cb_log, phys_down>>

\* the daemon's stop() and a later start() of the pynput listener
HkStop ==
  /\ backend = "pynput" /\ hk.is_running /\ Len(ev_log) < MaxEvents
  /\ hk' = stop(hk)
  /\ Lifecycle("stop", hk.hotkey, Ok)
  /\ UNCHANGED notHkVars

HkStart ==
  /\ backend = "pynput" /\ Len(ev_log) < MaxEvents
  /\ hk' = start(hk).st
  /\ Lifecycle("start", hk.hotkey, start(hk).err)
  /\ UNCHANGED notHkVars

\* a client changes the hotkey of the pynput listener
HkSetHotkey ==
  /\ backend = "pynput" /\ Len(ev_log) < MaxEvents
  /\ \E hotkey \in NewHotkeys :
       \E s \in {set_hotkey(hk, hotkey)} :
         /\ hk' = s.st
         /\ Lifecycle("set_hotkey", hotkey, s.err)
  /\ UNCHANGED notHkVars

\* the file watcher delivers a configuration change to the daemon
DaemonConfigChanged ==
  /\ dmn.running /\ Len(ev_log) < MaxEvents
  /\ \E load_ok \in BOOLEAN, config \in ReloadConfigs :
       \E c \in {_on_config_changed(backend, hk, rec, load_ok, config)} :
         /\ hk' = c.hk
         /\ rec' = c.rec
         /\ d_last' = [op |-> "config", load_ok |-> load_ok, config |-> config,
                       err |-> c.err]
         /\ Lifecycle("config", config.hotkey, c.err)
  /\ UNCHANGED <<audioVars, rec_last, fed, dmn, ui, inj, fed_log, lockVars>>

NextReconfig ==
  \/ PynputKeyDown
  \/ PynputKeyUp
  \/ EvdevKeyDown
  \/ EvdevKeyUp
  \/ HkStop
  \/ HkStart
  \/ HkSetHotkey
  \/ DaemonConfigChanged

\* a running daemon whose listener was constructed with a valid hotkey
InitReconfig ==
  /\ backend \in Backends
  /\ hk = NewListener(backend, <<"ctrl", "f9">>)
  /\ now = 1
  /\ phys_down = {}
  /\ ev_log = <<>>
  /\ cb_log = <<>>
  /\ last_ev = NoEvent

InitSpecReconfig ==
  InitReconfig /\ InitAudio /\ InitDaemonRecognizer /\ InitDaemon

SpecReconfig == InitSpecReconfig /\ [][NextReconfig]_vars

\* C32: after _on_config_changed has loaded a new configuration, the
\* recognizer holds that configuration's language and idle-unload seconds,
\* whichever the hotkey backend and whether or not set_hotkey raised
C32_ConfigAppliedToRecognizer ==
  (d_last.op = "config" /\ d_last.load_ok) =>
     /\ rec.language = (IF d_last.config.language = "auto" THEN None
                        ELSE d_last.config.language)
     /\ rec.unload_after_seconds = d_last.config.unload_model_after


\* C33: set_hotkey is all-or-nothing: when it returns, the listener holds the
\* new name, target key and modifier set and runs iff it ran before; when it
\* raises, the listener is as it was before the call
C33_SetHotkeyAllOrNothing ==
  (last_ev.dir = "call" /\ last_ev.key = "set_hotkey") =>
     IF last_ev.err = Ok
     THEN /\ hk.hotkey = last_ev.given
          /\ hk.target_key = _parse_hotkey(last_ev.given).target_key
          /\ hk.required_modifiers = _parse_hotkey(last_ev.given).required_modifiers
          /\ hk.is_running = last_ev.before.is_running
     ELSE /\ hk.hotkey = last_ev.before.hotkey
          /\ hk.target_key = last_ev.before.target_key
          /\ hk.required_modifiers = last_ev.before.required_modifiers
          /\ hk.is_running = last_ev.before.is_running


(***************************************************************************)
(* Claims about the idle daemon, checked under Spec                        *)
(***************************************************************************)
\* C34: whenever the daemon is idle (session flag false, no handler holding
\* the session lock) the recognizer is not in streaming mode
C34_IdleNotStreaming ==
  (~dmn.is_recording /\ ~dmn.lock) => ~rec.is_streaming


\* C35: the callbacks a listener emits alternate strictly, starting with a
\* press: the first, third, ... are presses and the second, fourth, ...
\* releases, whatever the raw events and the stop / start / set_hotkey calls
C35_CallbacksAlternate ==
  \A i \in DOMAIN cb_log :
     cb_log[i].kind = (IF i % 2 = 1 THEN "press" ELSE "release")


(***************************************************************************)
(* Overlapping capture loops: the engine with room for one thread more     *)
(* than a session needs, so that a loop that outlived the join of          *)
(* stop_recording can meet the loop of the next start_recording.           *)
(***************************************************************************)
LoopIds == 1 .. MaxThreads + 1

InitOverlap ==
  /\ audio = NewAudioCapture
  /\ threads = [t \in LoopIds |-> Thread("none", NoChunk, FALSE)]
  /\ next_seq = 1
  /\ delivered = NoChunk
  /\ caller = "idle"
  /\ last_call = NoCall
  /\ last_append = NoAppend
  /\ stop_data = NoData
  /\ session_log = <<>>

NextOverlap ==
  \/ AudioStart
  \/ AudioStopBegin
  \/ AudioStopJoined
  \/ AudioStopFinish
  \/ AudioReleaseBegin
  \/ AudioReleaseFinish
  \/ \E t \in LoopIds : LoopCheck(t)
  \/ \E t \in LoopIds : LoopRead(t)
  \/ \E t \in LoopIds : LoopStore(t)
  \/ \E t \in LoopIds : LoopCallback(t)

InitSpecOverlap == IdleHotkey /\ InitOverlap /\ IdleRecognizer /\ InitDaemon

SpecOverlap == InitSpecOverlap /\ [][NextOverlap]_vars

\* the capture threads inside _recording_loop
RunningLoops == {t \in DOMAIN threads : threads[t].pc # "none"}

\* C36: at most one capture-loop thread of the engine runs at any time
C36_AtMostOneLoop == Cardinality(RunningLoops) <= 1


\* C37: while a streaming session is active the model handle is present:
\* neither the idle timer nor a call of unload_model releases it between
\* start_streaming_transcription and the end of streaming
C37_ModelHeldWhileStreaming == rec.is_streaming => rec.model_loaded


(***************************************************************************)
(* The locks.  Each function of the source is reduced to the sequence of   *)
(* lock operations and thread operations it performs, in program order,    *)
(* for every path through it; a thread executes its sequence one step at a *)
(* time, and an acquire waits until the lock is free.                      *)
(***************************************************************************)
Acq(l) == <<"acquire", l>>

Rel(l) == <<"release", l>>

\* with lock: body
With(l, body) == <<Acq(l)>> \o body \o <<Rel(l)>>

\* SpeechRecognizer._ensure_model_loaded: _load_model, which takes the model
\* lock, runs when the model is not loaded
_ensure_model_loaded_locks(loaded) ==
  IF loaded THEN <<>> ELSE With("model", <<>>)

\* SpeechRecognizer.start_streaming_transcription; raises is the RuntimeError
\* of a stream already in progress
start_streaming_transcription_locks(raises, loaded) ==
  IF raises THEN <<>>
  ELSE _ensure_model_loaded_locks(loaded) \o With("chunks", <<>>)
         \o With("transcription", <<>>)

\* AudioCapture.start_recording: the buffer is cleared under its lock, the
\* stop event cleared and the capture thread started
start_recording_locks(raises) ==
  IF raises THEN <<>> ELSE With("buffer", <<>>) \o << <<"spawn", "loop">> >>

\* AudioCapture.stop_recording: the stop event is set, the capture thread
\* joined with a timeout, the buffer collected under its lock
stop_recording_locks ==
  << <<"set", "stop_event">>, <<"join", "loop">> >> \o With("buffer", <<>>)

\* AudioCapture.release_device after stop_recording has run
release_device_locks == With("buffer", <<>>) \o With("level", <<>>)

\* SpeechRecognizer.transcribe: the model is ensured, and after the
\* inference _schedule_model_unload arms the idle timer
transcribe_locks(loaded) ==
  _ensure_model_loaded_locks(loaded) \o << <<"arm", "timer">> >>

\* SpeechRecognizer.stop_streaming_transcription
stop_streaming_transcription_locks == With("chunks", <<>>)

\* SpeechRecognizer.finalize_transcription
finalize_transcription_locks(has_audio, loaded) ==
  IF has_audio
  THEN transcribe_locks(loaded) \o stop_streaming_transcription_locks
  ELSE With("transcription", <<>>) \o stop_streaming_transcription_locks

\* ZephyrDaemon._on_hotkey_press: the whole handler runs under the session
\* lock; ignored is the return when a session exists or the overlay is shown
_on_hotkey_press_locks(ignored, stream_raises, loaded, record_raises) ==
  With("session",
       IF ignored THEN <<>>
       ELSE start_streaming_transcription_locks(stream_raises, loaded)
              \o (IF stream_raises THEN <<>>
                  ELSE start_recording_locks(record_raises)))

\* ZephyrDaemon._on_hotkey_release: the whole handler runs under the session
\* lock; finalize_transcription is called when stop_recording returned audio
_on_hotkey_release_locks(ignored, has_audio, loaded) ==
  With("session",
       IF ignored THEN <<>>
       ELSE stop_recording_locks
              \o (IF has_audio THEN finalize_transcription_locks(TRUE, loaded)
                  ELSE <<>>)
              \o release_device_locks)

\* ZephyrDaemon._on_transcription_update taking the session lock
_on_transcription_update_locks_SessionLock == With("session", <<>>)

\* ZephyrDaemon._on_transcription_update: the overlay and the injector are
\* updated, no lock is taken
_on_transcription_update_locks == <<>>

\* SpeechRecognizer.process_audio_chunk: inferred is whether the chunk got as
\* far as a successful inference, whose text is compared and stored under the
\* transcription lock; changed is whether the text differs, and then the
\* streaming callback runs with the lock held
process_audio_chunk_locks(inferred, changed) ==
  IF ~inferred THEN <<>>
  ELSE With("transcription",
            IF changed THEN _on_transcription_update_locks ELSE <<>>)

\* ZephyrDaemon._on_audio_chunk: get_audio_level, then process_audio_chunk
_on_audio_chunk_locks(inferred, changed) ==
  With("level", <<>>) \o process_audio_chunk_locks(inferred, changed)

\* one turn of AudioCapture._recording_loop after the read: the level and the
\* buffer, each under its lock, then the chunk callback with neither held
_recording_loop_locks(inferred, changed) ==
  With("level", <<>>) \o With("buffer", <<>>)
    \o _on_audio_chunk_locks(inferred, changed)

\* SpeechRecognizer.unload_model
unload_model_locks == With("model", <<>>)

\* the locks thread t holds
Held(t) == {l \in Locks : lk.holder[l] = t}

\* thread t is at an acquire of a lock that is held
Blocked(t) ==
  /\ lk.prog[t] # <<>>
  /\ Head(lk.prog[t])[1] = "acquire"
  /\ lk.holder[Head(lk.prog[t])[2]] # None

\* the listener thread delivers a press or a release to the daemon
HotkeyThreadCall ==
  /\ lk.prog["hotkey"] = <<>>
  /\ \E press, ignored, a, loaded, b \in BOOLEAN :
       lk' = [lk EXCEPT !.prog["hotkey"] =
                IF press THEN _on_hotkey_press_locks(ignored, a, loaded, b)
                ELSE _on_hotkey_release_locks(ignored, a, loaded)]
  /\ UNCHANGED <<hkVars, audioVars, recVars, daemonVars>>

\* the capture thread tests the stop event: it ends, or reads a chunk and
\* goes through one turn of the loop
LoopThreadTurn ==
  /\ lk.prog["loop"] = <<>> /\ lk.alive
  /\ IF lk.stop_event
     THEN lk' = [lk EXCEPT !.alive = FALSE]
     ELSE \E inferred, changed \in BOOLEAN :
            lk' = [lk EXCEPT !.prog["loop"] =
                     _recording_loop_locks(inferred, changed)]
  /\ UNCHANGED <<hkVars, audioVars, recVars, daemonVars>>

\* the idle timer fires and its thread runs unload_model
TimerThreadFire ==
  /\ lk.prog["timer"] = <<>> /\ lk.armed
  /\ lk' = [lk EXCEPT !.prog["timer"] = unload_model_locks, !.armed = FALSE]
  /\ UNCHANGED <<hkVars, audioVars, recVars, daemonVars>>

\* thread t executes the next operation of its sequence: an acquire of a
\* free lock, a release, or a thread operation; join returns when the capture
\* thread has ended or its timeout has passed
LockStep(t) ==
  /\ lk.prog[t] # <<>>
  /\ LET op == Head(lk.prog[t])[1]
         x  == Head(lk.prog[t])[2]
         rest == [lk EXCEPT !.prog[t] = Tail(lk.prog[t])]
     IN  CASE op = "acquire" ->
                /\ lk.holder[x] = None
                /\ lk' = [rest EXCEPT !.holder[x] = t,
                                      !.order = @ \cup {<<h, x>> : h \in Held(t)}]
           [] op = "release" -> lk' = [rest EXCEPT !.holder[x] = None]
           [] op = "spawn"   -> lk' = [rest EXCEPT !.alive = TRUE,
                                                   !.stop_event = FALSE]
           [] op = "set"     -> lk' = [rest EXCEPT !.stop_event = TRUE]
           [] op = "join"    -> lk' = rest
           [] op = "arm"     -> lk' = [rest EXCEPT !.armed = TRUE]
  /\ UNCHANGED <<hkVars, audioVars, recVars, daemonVars>>

NextLocks ==
  \/ HotkeyThreadCall
  \/ LoopThreadTurn
  \/ TimerThreadFire
  \/ \E t \in LockThreads : LockStep(t)

SpecLocks == InitSpec /\ [][NextLocks]_vars

\* the pairs reachable through one or more pairs of R
RECURSIVE Closure(_)
Closure(R) ==
  LET chained == {pq \in R \X R : pq[1][2] = pq[2][1]}
      RR == R \cup {<<pq[1][1], pq[2][2]>> : pq \in chained}
  IN  IF RR = R THEN R ELSE Closure(RR)

Acyclic(R) == \A r \in Closure(R) : r[1] # r[2]

\* thread t waits for a lock that thread u holds
WaitsFor ==
  {w \in LockThreads \X LockThreads :
     Blocked(w[1]) /\ lk.holder[Head(lk.prog[w[1]])[2]] = w[2]}

\* C38: no deadlock among the hotkey thread, the capture thread and the timer
\* thread: in no reachable state do threads wait for one another's locks in
\* a cycle (a thread waiting for a lock it holds itself included), and the
\* order in which locks are taken while others are held has no cycle
C38_NoDeadlock == Acyclic(WaitsFor) /\ Acyclic(lk.order)

\* the listener thread, inside a handler with the session lock held, waits
\* for the transcription lock while the capture thread holds it, and the
\* timer thread holds the model lock
C38_Witness ==
  /\ <<"hotkey", "loop">> \in WaitsFor
  /\ lk.holder = [NoLocks.holder EXCEPT !["session"] = "hotkey",
                                        !["transcription"] = "loop",
                                        !["model"] = "timer"]
  /\ <<"session", "transcription">> \in lk.order


(***************************************************************************)
(* The text injector and its target.  What the focused window holds is not *)
(* state of the program: the number of characters of the session that are  *)
(* in it is kept as history, in the record of the last call.               *)
(***************************************************************************)
\* the texts update_text is given: none, of one character, of two characters
UpdateTexts == {"", "a", "v", "hi", "ok"}

\* what happens to an update: it goes through, no window is focused,
\* _delete_characters returns False, or _type_text_internal returns False
\* after the deletion went through
UpdateOutcomes == {"ok", "unfocused", "delete_failed", "type_failed"}

\* the outcome as update_text sees it
Typing(outcome) ==
  IF outcome \in {"delete_failed", "type_failed"} THEN "failed" ELSE outcome

\* InputSimulator.update_text, lines 260-272, seen from the target: in_target
\* characters of the session are in it before the call; deleted is the
\* number of backspaces sent, in_target the characters of the session in it
\* afterwards
update_text_target(i, in_target, new_text, outcome) ==
  IF ~i.is_streaming \/ outcome = "unfocused"
  THEN [deleted |-> 0, in_target |-> in_target]
  ELSE IF i.typed_char_count > 0 /\ outcome = "delete_failed"
  THEN [deleted |-> 0, in_target |-> in_target]
  ELSE LET deleted == i.typed_char_count
           left == IF in_target > deleted THEN in_target - deleted ELSE 0
       IN  IF new_text # "" /\ outcome # "type_failed"
           THEN [deleted |-> deleted, in_target |-> left + StrLen(new_text)]
           ELSE [deleted |-> deleted, in_target |-> left]

\* the record of the last call of the injector
InjCall(op, text, outcome, before, t) ==
  [op |-> op, text |-> text, outcome |-> outcome, in_target_before |-> before,
   deleted |-> t.deleted, in_target |-> t.in_target]

InTarget == IF d_last.op \in {"update_text", "start", "finalize"}
            THEN d_last.in_target ELSE 0

\* a call of start_streaming_input: a new session has nothing in the target
InjStart ==
  /\ inj' = start_streaming_input(inj)
  /\ d_last' = InjCall("start", "", "ok", InTarget,
                       [deleted |-> 0,
                        in_target |-> IF inj.is_streaming THEN InTarget ELSE 0])
  /\ UNCHANGED <<dmn, ui, fed_log, hkVars, audioVars, recVars, lockVars>>

\* a call of update_text
InjUpdate ==
  /\ \E new_text \in UpdateTexts, outcome \in UpdateOutcomes :
       /\ outcome = "delete_failed" => inj.typed_char_count > 0
       /\ outcome = "type_failed" => new_text # ""
       /\ inj' = update_text(inj, new_text, Typing(outcome)).st
       /\ d_last' = InjCall("update_text", new_text, outcome, InTarget,
                            update_text_target(inj, InTarget, new_text, outcome))
  /\ UNCHANGED <<dmn, ui, fed_log, hkVars, audioVars, recVars, lockVars>>

\* a call of finalize_input: what the session typed stays in the target and
\* belongs to it no longer
InjFinalize ==
  /\ inj' = finalize_input(inj)
  /\ d_last' = InjCall("finalize", "", "ok", InTarget,
                       [deleted |-> 0, in_target |-> 0])
  /\ UNCHANGED <<dmn, ui, fed_log, hkVars, audioVars, recVars, lockVars>>

NextInjector == InjStart \/ InjUpdate \/ InjFinalize

SpecInjector == InitSpec /\ [][NextInjector]_vars

\* C39: in streaming mode the recorded character count equals the number of
\* characters the session has in the target, and an update_text never sends
\* more backspaces than the session had characters there
C39_CountMatchesTarget ==
  (inj.is_streaming /\ d_last.op \in {"start", "update_text"}) =>
     /\ inj.typed_char_count = d_last.in_target
     /\ d_last.deleted <= d_last.in_target_before

====
